---- MODULE Spec2Model ----
(***************************************************************************)
(* Model of the SeedKey client SDK (class SeedKey): the correlated         *)
(* transport between the page and the key custodian (browser extension).   *)
(*                                                                         *)
(* JavaScript is single-threaded: every handler (sendToExtension up to     *)
(* the return of its promise, the response listener, a timer callback,     *)
(* destroy) runs to completion, so each is one action.  resolve/reject     *)
(* only settle a promise; continuations run later as separate steps.       *)
(* Math.random() is an input: any suffix may be drawn at any call.         *)
(* Time is kept as successive readings of the clock: a timer fires at a    *)
(* later reading than the one it was armed at.                             *)
(*                                                                         *)
(* Spec is the transport alone, driven by arbitrary sends and response     *)
(* events.  OpSpec runs the public operations built on it (the status      *)
(* probes, checkExtension, getExtensionStatus, register, authenticate,     *)
(* auth) against a custodian and a backend that answer, fail or stay       *)
(* silent: an operation is a chain of continuations, each run to its next  *)
(* await when the request or the fetch it awaits has settled.              *)
(***************************************************************************)
EXTENDS Integers, Sequences, FiniteSets, TLC

\* ------------------------------------------------------------------ bounds
MaxCalls == 2     \* sendToExtension calls per behaviour of Spec
MaxOps == 1       \* public operations invoked per behaviour of OpSpec
MaxFlows == 2     \* flows invoked per behaviour of OverlapSpec
MaxRequests == 1  \* backend operations called per behaviour of HttpSpec
MaxAttempts == 1  \* flows invoked per behaviour of ChallengeSpec
MaxKeyed == 1     \* flows invoked per behaviour of KeyedSpec
MaxInstances == 2 \* SeedKey objects, and ApiClient objects, built per behaviour
MaxPageSends == 2 \* sendToExtension calls on the SeedKey objects of the page

\* ------------------------------------------------------- program constants
DEFAULT_TIMEOUT == 60000
PROBE_TIMEOUT == 3000

Undefined == "undefined"

SeedKeyAction ==
  {"check_available", "is_initialized", "get_public_key", "sign_challenge", "sign_message"}

ERROR_CODES ==
  [EXTENSION_NOT_FOUND |-> "EXTENSION_NOT_FOUND",
   EXTENSION_NOT_CONFIGURED |-> "EXTENSION_NOT_CONFIGURED",
   TIMEOUT |-> "TIMEOUT",
   USER_REJECTED |-> "USER_REJECTED",
   NETWORK_ERROR |-> "NETWORK_ERROR",
   SERVER_ERROR |-> "SERVER_ERROR",
   USER_NOT_FOUND |-> "USER_NOT_FOUND",
   USER_EXISTS |-> "USER_EXISTS",
   INVALID_TOKEN |-> "INVALID_TOKEN"]

EXTENSION_DOWNLOAD_URL == ""

\* new SeedKeyError(code, message, hint?, downloadUrl?)
SeedKeyError(code, message, hint, downloadUrl) ==
  [name |-> "SeedKeyError", code |-> code, message |-> message,
   hint |-> hint, downloadUrl |-> downloadUrl]

\* new ExtensionNotFoundError(message): a SeedKeyError subclass
ExtensionNotFoundError(message) ==
  [SeedKeyError(ERROR_CODES.EXTENSION_NOT_FOUND, message,
                "Install SeedKey browser extension", EXTENSION_DOWNLOAD_URL)
     EXCEPT !.name = "ExtensionNotFoundError"]

\* new ExtensionNotFoundError(): the message defaults
ExtensionNotFoundError_default ==
  ExtensionNotFoundError("SeedKey extension not found. Please install it.")

\* new ExtensionNotConfiguredError(): no downloadUrl is passed on
ExtensionNotConfiguredError ==
  [SeedKeyError(ERROR_CODES.EXTENSION_NOT_CONFIGURED,
                "SeedKey extension is not configured. Please set up your identity.",
                "Open SeedKey extension and create your identity", Undefined)
     EXCEPT !.name = "ExtensionNotConfiguredError"]

\* The TypeError the engine throws on a property read of undefined or null:
\* an Error that is no SeedKeyError and has no code.
TypeError(message) ==
  [name |-> "TypeError", code |-> Undefined, message |-> message,
   hint |-> Undefined, downloadUrl |-> Undefined]

\* error instanceof SeedKeyError
InstanceOfSeedKeyError(error) ==
  error.name \in {"SeedKeyError", "ExtensionNotFoundError", "ExtensionNotConfiguredError"}

\* No error: the error slot of a promise that was not rejected.
NoError ==
  [name |-> "", code |-> "", message |-> "", hint |-> "", downloadUrl |-> ""]

\* a || b on numbers: b when a is 0 (or undefined, written 0 here)
OrElse(a, b) == IF a # 0 THEN a ELSE b

\* A value of a response's result: an object of two properties at most
\* (field = "": no such property), or undefined.
Object2(field, value, field2, value2) ==
  [defined |-> TRUE, field |-> field, value |-> value,
   field2 |-> field2, value2 |-> value2]

Object(field, value) == Object2(field, value, "", "")

UndefinedResult ==
  [defined |-> FALSE, field |-> "", value |-> "", field2 |-> "", value2 |-> ""]

\* result[field] of a result that is an object
Get(result, field) ==
  IF field = "" THEN Undefined
  ELSE IF result.field = field THEN result.value
  ELSE IF result.field2 = field THEN result.value2
  ELSE Undefined

\* ------------------------------------------------------------------- state
VARIABLES
  now,              \* the clock, in distinct readings of Date.now(): only
                    \* sendToExtension and the timers observe time, and only
                    \* whether a reading is the same or a later one matters
  timeout,          \* this.timeout
  pendingRequests,  \* this.pendingRequests: requestId -> [call]: the resolve,
                    \* reject and timeoutId stored are those of that call
  timers,           \* armed setTimeout callbacks: [call, requestId, armedAt,
                    \* delay]
  listening,        \* handleResponse is registered on the document
  calls,            \* per sendToExtension call: its request and its promise
  emitted,          \* request events dispatched so far: [requestId, action]
  destroys,         \* how often destroy() has run: 0, 1, 2 for twice or more
  lastEvent,        \* what the last handler ran into (history: what it logs)
  ops,              \* the public operations invoked: each one's promise, the
                    \* await its continuation is parked at, its locals and
                    \* the steps it has issued (history)
  http,             \* the backend operations called on their own (SeedKey's
                    \* and ApiClient's): each one's fetch and promise
  localStorage,     \* window.localStorage: key -> string
  ledger,           \* the calls of the storage functions (history): the
                    \* last one that wrote, with its arguments, and the last
                    \* one that read, with what it returned
  instances,        \* the SeedKey objects the page has built with
                    \* getSeedKey or new SeedKey, in the order of their
                    \* construction: the fields of each
  defaultInstance,  \* the module variable of seedkey.ts: 0 (null) or the
                    \* place in instances of the object it refers to
  apiClients,       \* the ApiClient objects built by getApiClient: the
                    \* baseUrl of each
  apiClientInstance,\* the module variable of api.ts: 0 (null) or the place
                    \* in apiClients of the object it refers to
  singletonCalls    \* the calls of getSeedKey, getApiClient and the resets
                    \* (history): the last one with what it came to, and
                    \* the first one since the reset that gave options

vars == <<now, timeout, pendingRequests, timers, listening, calls,
          emitted, destroys, lastEvent, ops, http, localStorage, ledger,
          instances, defaultInstance, apiClients, apiClientInstance,
          singletonCalls>>

\* The objects of the page and the two module variables that refer to them.
page == <<instances, defaultInstance, apiClients, apiClientInstance, singletonCalls>>

\* What the transport and the flows of a SeedKey instance never touch: the
\* backend operations called on their own, the token store, and the other
\* objects of the page.
outside == <<http, localStorage, ledger, page>>

\* The mutable state of one SeedKey instance, as a record the handlers map.
State ==
  [pendingRequests |-> pendingRequests, timers |-> timers,
   listening |-> listening, calls |-> calls, emitted |-> emitted,
   lastEvent |-> lastEvent, ops |-> ops]

Install(S) ==
  /\ pendingRequests' = S.pendingRequests
  /\ timers' = S.timers
  /\ listening' = S.listening
  /\ calls' = S.calls
  /\ emitted' = S.emitted
  /\ lastEvent' = S.lastEvent
  /\ ops' = S.ops

CallIds == 1..Len(calls)

NoId == <<"req", 0, "">>

Event(op, c, requestId) ==
  [op |-> op, call |-> c, requestId |-> requestId, outcome |-> "none"]

\* ---------------------------------------------------------------- promises
\* Counting an occurrence in a history counter: 0, 1, 2 for twice or more.
Inc(n) == IF n = 0 THEN 1 ELSE 2

\* resolve(value) of call c's promise: only the first settlement takes effect
Resolve(S, c, value, path) ==
  [S EXCEPT !.calls[c] =
     IF @.state = "pending"
       THEN [@ EXCEPT !.state = "resolved", !.result = value, !.by = path,
                      !.fired = Inc(@)]
       ELSE [@ EXCEPT !.fired = Inc(@)]]

\* reject(error) of call c's promise
Reject(S, c, error, path) ==
  [S EXCEPT !.calls[c] =
     IF @.state = "pending"
       THEN [@ EXCEPT !.state = "rejected", !.error = error, !.by = path,
                      !.fired = Inc(@)]
       ELSE [@ EXCEPT !.fired = Inc(@)]]

\* clearTimeout(timeoutId): the timer of call c is disarmed
ClearTimeout(S, c) ==
  [S EXCEPT !.timers = {t \in @ : t.call # c}]

\* Map.delete(requestId)
MapDelete(m, requestId) ==
  [k \in DOMAIN m \ {requestId} |-> m[k]]

\* Map.set(requestId, entry): replaces the entry of an equal key
MapSet(m, requestId, entry) ==
  [k \in DOMAIN m \cup {requestId} |-> IF k = requestId THEN entry ELSE m[k]]

\* ------------------------------------------------------------ request ids
\* `req_${Date.now()}_${Math.random().toString(36).substring(2, 11)}`:
\* the id is made of the clock's reading and a random suffix, nothing else.
generateRequestId(clock, suffix) ==
  <<"req", clock, suffix>>

\* Values of Math.random().toString(36).substring(2, 11)
RandomSuffixes == {"4fzyo82mv", "k9w2x1c0q"}

\* ------------------------------------------------------- inbound responses
\* event.detail of a response event (detail = FALSE: the event carries none);
\* error.present = FALSE: the response carries no error object
NoErrorDetail == [present |-> FALSE, code |-> "", message |-> ""]

ErrorDetails ==
  {NoErrorDetail, [present |-> TRUE, code |-> "USER_REJECTED", message |-> "denied"]}

\* The result the responses of the transport model carry (its content is
\* nothing to the transport).
SomeResult == Object("publicKey", "pk1")

ResponsesFor(requestId) ==
  {[detail |-> TRUE, type |-> "SEEDKEY_RESPONSE", requestId |-> requestId,
    success |-> TRUE, result |-> SomeResult, error |-> NoErrorDetail]}
  \cup
  {[detail |-> TRUE, type |-> "SEEDKEY_RESPONSE", requestId |-> requestId,
    success |-> FALSE, result |-> UndefinedResult, error |-> e] : e \in ErrorDetails}
  \cup
  {[detail |-> d, type |-> "OTHER", requestId |-> requestId,
    success |-> TRUE, result |-> SomeResult, error |-> NoErrorDetail] : d \in BOOLEAN}

\* No synchronous answer inside the dispatch of a request.
NoResponse ==
  [detail |-> FALSE, type |-> "NONE", requestId |-> NoId,
   success |-> FALSE, result |-> UndefinedResult, error |-> NoErrorDetail]

\* data.error?.code || fallback, data.error?.message || fallback
ErrorField(error, field, fallback) ==
  IF ~error.present THEN fallback
  ELSE IF error[field] = "" THEN fallback
  ELSE error[field]

\* Faulty variant: handleResponse that leaves the entry in the table
handleResponse_KeepsEntry(S, data) ==
  IF ~data.detail \/ data.type # "SEEDKEY_RESPONSE"
    THEN [S EXCEPT !.lastEvent.outcome = "ignored", !.lastEvent.requestId = NoId]
  ELSE IF data.requestId \notin DOMAIN S.pendingRequests
    THEN [S EXCEPT !.lastEvent.outcome = "unknown"]
  ELSE
    LET pending == S.pendingRequests[data.requestId]
        S1 == ClearTimeout(S, pending.call)
        S2 == [S1 EXCEPT !.lastEvent.outcome = "settled"]
    IN IF data.success
         THEN Resolve(S2, pending.call, data.result, "response")
         ELSE Reject(S2, pending.call,
                     SeedKeyError(ErrorField(data.error, "code", ERROR_CODES.SERVER_ERROR),
                                  ErrorField(data.error, "message", "Extension error"),
                                  Undefined, Undefined),
                     "response")

\* Faulty variant: handleResponse that does not look at the type
handleResponse_AnyType(S, data) ==
  IF ~data.detail
    THEN [S EXCEPT !.lastEvent.outcome = "ignored", !.lastEvent.requestId = NoId]
  ELSE IF data.requestId \notin DOMAIN S.pendingRequests
    THEN [S EXCEPT !.lastEvent.outcome = "unknown"]
  ELSE
    LET pending == S.pendingRequests[data.requestId]
        S1 == ClearTimeout(S, pending.call)
        S2 == [S1 EXCEPT !.pendingRequests = MapDelete(@, data.requestId),
                         !.lastEvent.outcome = "settled"]
    IN IF data.success
         THEN Resolve(S2, pending.call, data.result, "response")
         ELSE Reject(S2, pending.call,
                     SeedKeyError(ErrorField(data.error, "code", ERROR_CODES.SERVER_ERROR),
                                  ErrorField(data.error, "message", "Extension error"),
                                  Undefined, Undefined),
                     "response")

\* Faulty variant: a response whose requestId the table does not hold
\* settles whatever the table holds
handleResponse_SettlesAny(S, data) ==
  IF ~data.detail \/ data.type # "SEEDKEY_RESPONSE"
    THEN [S EXCEPT !.lastEvent.outcome = "ignored", !.lastEvent.requestId = NoId]
  ELSE IF S.pendingRequests = <<>>
    THEN [S EXCEPT !.lastEvent.outcome = "unknown"]
  ELSE
    LET requestId == IF data.requestId \in DOMAIN S.pendingRequests
                       THEN data.requestId
                       ELSE CHOOSE k \in DOMAIN S.pendingRequests : TRUE
        pending == S.pendingRequests[requestId]
        S1 == ClearTimeout(S, pending.call)
        S2 == [S1 EXCEPT !.pendingRequests = MapDelete(@, requestId),
                         !.lastEvent.outcome = "settled"]
    IN IF data.success
         THEN Resolve(S2, pending.call, data.result, "response")
         ELSE Reject(S2, pending.call,
                     SeedKeyError(ErrorField(data.error, "code", ERROR_CODES.SERVER_ERROR),
                                  ErrorField(data.error, "message", "Extension error"),
                                  Undefined, Undefined),
                     "response")

\* SeedKey.handleResponse; lastEvent is what it logs: nothing of a message it
\* ignores (it returns before it reads the requestId), the warning for an
\* unknown request, the response received for a known one
handleResponse(S, data) ==
  IF ~data.detail \/ data.type # "SEEDKEY_RESPONSE"
    THEN [S EXCEPT !.lastEvent.outcome = "ignored", !.lastEvent.requestId = NoId]
  ELSE IF data.requestId \notin DOMAIN S.pendingRequests
    THEN [S EXCEPT !.lastEvent.outcome = "unknown"]
  ELSE
    LET pending == S.pendingRequests[data.requestId]
        S1 == ClearTimeout(S, pending.call)
        S2 == [S1 EXCEPT !.pendingRequests = MapDelete(@, data.requestId),
                         !.lastEvent.outcome = "settled"]
    IN IF data.success
         THEN Resolve(S2, pending.call, data.result, "response")
         ELSE Reject(S2, pending.call,
                     SeedKeyError(ErrorField(data.error, "code", ERROR_CODES.SERVER_ERROR),
                                  ErrorField(data.error, "message", "Extension error"),
                                  Undefined, Undefined),
                     "response")

\* document.dispatchEvent(response event): runs the listener if it is attached
DispatchResponse(S, data) ==
  IF S.listening THEN handleResponse(S, data)
  ELSE [S EXCEPT !.lastEvent.outcome = "undelivered"]

\* ------------------------------------------------------------------- send
\* this.pendingRequests.set(requestId, {resolve, reject, timeoutId}), after
\* setTimeout(..., timeout) has armed the timer of the call
Register(S, c, requestId, timer) ==
  [S EXCEPT
     !.timers = @ \cup {timer},
     !.pendingRequests = MapSet(@, requestId, [call |-> c])]

\* document.dispatchEvent(request event): the custodian's listener runs inside
\* the dispatch and may answer synchronously (sync), before dispatch returns
Emit(S, request, sync) ==
  LET S1 == [S EXCEPT !.emitted = @ \cup {request}]
  IN IF sync = NoResponse THEN S1 ELSE DispatchResponse(S1, sync)

\* Faulty variant: the request is dispatched before the entry is stored
SendSteps_EmitFirst(S, c, request, timer, sync) ==
  Register(Emit(S, request, sync), c, request.requestId, timer)

\* The executor of the promise sendToExtension returns: setTimeout,
\* pendingRequests.set, dispatchEvent, in this order.
SendSteps(S, c, request, timer, sync) ==
  Emit(Register(S, c, request.requestId, timer), request, sync)

\* epoch: how many destroy() calls preceded the send (history)
NewCall(action, requestId, epoch) ==
  [action |-> action, requestId |-> requestId, epoch |-> epoch,
   state |-> "pending", result |-> UndefinedResult, error |-> NoError,
   by |-> "none", fired |-> 0]

\* The timeout each public operation passes: isAvailable and isInitialized
\* pass 3000, the others none (0 here).
CustomTimeoutOf(action) ==
  IF action \in {"check_available", "is_initialized"} THEN PROBE_TIMEOUT ELSE 0

\* SeedKey.sendToExtension(action, payload, customTimeout), called by
\* isAvailable, isInitialized, getPublicKey, signMessage, signChallenge.
\* clock: the reading of Date.now() in this call; suffix: what Math.random()
\* gives; sync: what the custodian answers inside the dispatch, if anything.
\* The promise returned is that of the call Len(S.calls) + 1.
sendToExtension(S, action, customTimeout, clock, suffix, sync) ==
  LET c == Len(S.calls) + 1
      requestId == generateRequestId(clock, suffix)
      t == OrElse(customTimeout, timeout)
      request == [requestId |-> requestId, action |-> action]
      S0 == [S EXCEPT !.calls = Append(@, NewCall(action, requestId, destroys)),
                      !.lastEvent = Event("send", c, requestId)]
  IN SendSteps(S0, c, request,
               [call |-> c, requestId |-> requestId,
                armedAt |-> clock, delay |-> t], sync)

\* The actions the model sends: a probe (isAvailable, with its own timeout) and
\* an operation on the default timeout (getPublicKey); isInitialized behaves
\* here as the first, signChallenge and signMessage as the second.
SentActions == {a \in SeedKeyAction : a \in {"check_available", "get_public_key"}}

\* A public operation is called. Date.now() reads the clock as it stands:
\* calls that no timer expiry separates fall in the same millisecond, the
\* case in which only the random suffix tells their ids apart.
Send ==
  \E action \in SentActions, suffix \in RandomSuffixes :
    \E sync \in {NoResponse}
                  \cup {r \in ResponsesFor(generateRequestId(now, suffix)) :
                          r.type = "SEEDKEY_RESPONSE"} :
      /\ Len(calls) < MaxCalls
      /\ Install(sendToExtension(State, action, CustomTimeoutOf(action),
                                  now, suffix, sync))
      /\ UNCHANGED <<now, timeout, destroys, outside>>

\* A response event arrives on the document (from the custodian or anyone),
\* carrying the id of a request sent so far or a foreign one.
KnownIds == {calls[c].requestId : c \in CallIds} \cup {NoId}

\* the response event data is dispatched on the document
Deliver(data) ==
  /\ Install(DispatchResponse(
               [State EXCEPT !.lastEvent = Event("response", 0, data.requestId)], data))
  /\ UNCHANGED <<now, timeout, destroys, outside>>

Response ==
  \E requestId \in KnownIds :
    \E data \in ResponsesFor(requestId) : Deliver(data)

\* ------------------------------------------------------------------ timers
\* Faulty variant: the timer callback leaves the entry in the table
timeoutCallback_KeepsEntry(S, t) ==
  LET S1 == [S EXCEPT !.timers = @ \ {t},
                      !.lastEvent = Event("timeout", t.call, t.requestId)]
  IN Reject(S1, t.call,
            ExtensionNotFoundError(
              "Request timed out. Make sure SeedKey extension is installed."),
            "timeout")

\* Faulty variant: the timer callback rejects with the generic TIMEOUT code
timeoutCallback_GenericTimeout(S, t) ==
  LET S1 == [S EXCEPT !.timers = @ \ {t},
                      !.pendingRequests = MapDelete(@, t.requestId),
                      !.lastEvent = Event("timeout", t.call, t.requestId)]
  IN Reject(S1, t.call,
            SeedKeyError(ERROR_CODES.TIMEOUT, "Request timed out", Undefined, Undefined),
            "timeout")

\* Faulty variant: the timer callback does nothing on a destroyed instance
timeoutCallback_SkipsDestroyed(S, t) ==
  LET S1 == [S EXCEPT !.timers = @ \ {t},
                      !.pendingRequests = MapDelete(@, t.requestId),
                      !.lastEvent = Event("timeout", t.call, t.requestId)]
  IN IF ~S.listening THEN S1
     ELSE Reject(S1, t.call,
                 ExtensionNotFoundError(
                   "Request timed out. Make sure SeedKey extension is installed."),
                 "timeout")

\* The callback passed to setTimeout in sendToExtension, for the timer t.
timeoutCallback(S, t) ==
  LET S1 == [S EXCEPT !.timers = @ \ {t},
                      !.pendingRequests = MapDelete(@, t.requestId),
                      !.lastEvent = Event("timeout", t.call, t.requestId)]
  IN Reject(S1, t.call,
            ExtensionNotFoundError(
              "Request timed out. Make sure SeedKey extension is installed."),
            "timeout")

\* An armed timer fires, not before its delay (a millisecond at least) has
\* elapsed: the clock then reads later than when the timer was armed.
Timeout ==
  \E t \in timers :
    /\ Install(timeoutCallback(State, t))
    /\ now' = IF t.delay > 0 /\ now <= t.armedAt THEN t.armedAt + 1 ELSE now
    /\ UNCHANGED <<timeout, destroys, outside>>

\* ----------------------------------------------------------------- destroy
\* The loop of destroy over the entries of this.pendingRequests.
RECURSIVE CancelAll(_, _)
CancelAll(S, ids) ==
  IF ids = {} THEN S
  ELSE
    LET requestId == CHOOSE k \in ids : TRUE
        entry == S.pendingRequests[requestId]
        S1 == ClearTimeout(S, entry.call)
        S2 == Reject(S1, entry.call,
                     SeedKeyError(ERROR_CODES.TIMEOUT, "SDK destroyed", Undefined, Undefined),
                     "destroy")
    IN CancelAll(S2, ids \ {requestId})

\* Faulty variant: destroy that leaves the response listener attached
destroy_KeepsListener(S) ==
  LET S2 == CancelAll(S, DOMAIN S.pendingRequests)
  IN [S2 EXCEPT !.pendingRequests = <<>>]

\* Faulty variant: destroy that does not clear the table
destroy_KeepsEntries(S) ==
  LET S1 == [S EXCEPT !.listening = FALSE]
  IN CancelAll(S1, DOMAIN S1.pendingRequests)

\* Faulty variant: destroy that clears the timers and the table but rejects
\* no one
destroy_DropsPending(S) ==
  [S EXCEPT !.listening = FALSE, !.timers = {}, !.pendingRequests = <<>>]

\* SeedKey.destroy: removeEventListener, the loop, pendingRequests.clear()
destroy(S) ==
  LET S1 == [S EXCEPT !.listening = FALSE]
      S2 == CancelAll(S1, DOMAIN S1.pendingRequests)
  IN [S2 EXCEPT !.pendingRequests = <<>>]

Destroy ==
  /\ Install(destroy([State EXCEPT !.lastEvent = Event("destroy", 0, NoId)]))
  /\ destroys' = Inc(destroys)
  /\ UNCHANGED <<now, timeout, outside>>

\* -------------------------------------------------------------- awaiting
\* What an awaited promise comes to: a value returned or an error thrown.
Return(value) == [ok |-> TRUE, value |-> value, error |-> NoError]

Throw(error) == [ok |-> FALSE, value |-> Undefined, error |-> error]

\* await of the promise of call c, once it is settled
Awaited(S, c) ==
  IF S.calls[c].state = "resolved"
    THEN Return(S.calls[c].result)
    ELSE Throw(S.calls[c].error)

\* --------------------------------------------------------------- backend
\* The parsed body of a backend response: the properties the SDK reads
\* (undefined when the body lacks them); defined = FALSE: the body is null.
Body(error, message, hint, challenge, challengeId, user, action) ==
  [defined |-> TRUE, error |-> error, message |-> message, hint |-> hint,
   challenge |-> challenge, challengeId |-> challengeId,
   user |-> user, action |-> action]

EmptyBody ==
  Body(Undefined, Undefined, Undefined, Undefined, Undefined, Undefined, Undefined)

NullBody == [EmptyBody EXCEPT !.defined = FALSE]

\* { error, message } of a failure the backend reports, { } when it names none
ErrorBodies ==
  {EmptyBody}
  \cup {[EmptyBody EXCEPT !.error = code, !.message = "refused"] :
          code \in {ERROR_CODES.USER_NOT_FOUND, ERROR_CODES.USER_EXISTS}}

\* ChallengeResponse: { challenge, challengeId }
ChallengeBodies ==
  {[EmptyBody EXCEPT !.challenge = "challenge1", !.challengeId = "cid1"], EmptyBody}

\* Challenge.expiresAt of the challenges a backend may issue, in readings of
\* the clock: challenge0 had expired before the instance was built (the
\* clock starts at 1), challenge1 expires after every reading taken
Challenge_expiresAt(challenge) == IF challenge = "challenge0" THEN 0 ELSE 1000

\* ChallengeResponse of a backend that issues a challenge already expired
ExpiredChallengeBodies ==
  {[EmptyBody EXCEPT !.challenge = "challenge0", !.challengeId = "cid0"]}

\* AuthResult as the backend sends it: { user, action, ... }
AuthBodies ==
  {[EmptyBody EXCEPT !.user = "user1", !.action = a] : a \in {"login", "register"}}
  \cup {EmptyBody}

\* What fetch(url) and response.json() come to: kind "reject": one of them
\* throws (no connection, a body that is no JSON); else response.ok and data
FetchReject == [kind |-> "reject", ok |-> FALSE, data |-> NullBody]

FetchOutcomes(path) ==
  {FetchReject}
  \cup {[kind |-> "response", ok |-> FALSE, data |-> b] : b \in ErrorBodies}
  \cup {[kind |-> "response", ok |-> TRUE, data |-> b] :
          b \in IF path = "/api/v1/seedkey/challenge"
                  THEN ChallengeBodies ELSE AuthBodies}

\* a || b on strings: b when a is undefined or empty
Or(a, b) == IF a = Undefined \/ a = "" THEN b ELSE a

\* SeedKey.httpPost, from the fetch on: any error that is no SeedKeyError
\* (fetch or json() throwing, data.error read on null) becomes NETWORK_ERROR
httpPost(fetched) ==
  IF fetched.kind # "response" \/ (~fetched.ok /\ ~fetched.data.defined)
    THEN Throw(SeedKeyError(ERROR_CODES.NETWORK_ERROR, "Network error",
                            Undefined, Undefined))
  ELSE IF ~fetched.ok
    THEN Throw(SeedKeyError(Or(fetched.data.error, ERROR_CODES.SERVER_ERROR),
                            Or(fetched.data.message, "Server error"),
                            fetched.data.hint, Undefined))
  ELSE Return(fetched.data)

\* SeedKey.httpGet: as httpPost from the fetch on
httpGet(fetched) ==
  IF fetched.kind # "response" \/ (~fetched.ok /\ ~fetched.data.defined)
    THEN Throw(SeedKeyError(ERROR_CODES.NETWORK_ERROR, "Network error",
                            Undefined, Undefined))
  ELSE IF ~fetched.ok
    THEN Throw(SeedKeyError(Or(fetched.data.error, ERROR_CODES.SERVER_ERROR),
                            Or(fetched.data.message, "Server error"),
                            fetched.data.hint, Undefined))
  ELSE Return(fetched.data)

\* ------------------------------------------------ the backend operations
\* The operations of SeedKey and of ApiClient that are one request to the
\* backend, from the fetch on. What they return: fetched.data for a body,
\* the user of a body, Undefined for nothing.

\* The SyntaxError of response.json() on a body that is no JSON
SyntaxError(message) ==
  [name |-> "SyntaxError", code |-> Undefined, message |-> message,
   hint |-> Undefined, downloadUrl |-> Undefined]

\* a response whose body cannot be decoded: response.json() throws
Undecodable(ok) == [kind |-> "undecodable", ok |-> ok, data |-> NullBody]

\* Faulty variant: requestChallenge that refuses a challenge whose expiresAt
\* has passed
requestChallenge_ChecksExpiry(fetched) ==
  LET h == httpPost(fetched)
  IN IF /\ h.ok
        /\ h.value.defined
        /\ h.value.challenge # Undefined
        /\ Challenge_expiresAt(h.value.challenge) < 1
       THEN Throw(SeedKeyError(ERROR_CODES.SERVER_ERROR, "Challenge expired",
                               Undefined, Undefined))
       ELSE h

\* SeedKey.requestChallenge: return await this.httpPost(...)
requestChallenge(fetched) == httpPost(fetched)

\* SeedKey.getUser: response.user.id is read for the log, before the return
getUser(fetched) ==
  LET response == httpGet(fetched)
  IN IF ~response.ok THEN response
     ELSE IF ~response.value.defined \/ response.value.user = Undefined
       THEN Throw(TypeError("Cannot read properties of undefined"))
     ELSE Return(response.value.user)

\* SeedKey.logout
logout(fetched) ==
  LET response == httpPost(fetched)
  IN IF ~response.ok THEN response ELSE Return(Undefined)

\* SeedKey.refreshToken: result.expiresIn is read for the log
refreshToken(fetched) ==
  LET result == httpPost(fetched)
  IN IF ~result.ok THEN result
     ELSE IF ~result.value.defined
       THEN Throw(TypeError("Cannot read properties of null"))
     ELSE result

\* ApiClient.fetch: only the fetch itself is inside its try
ApiClient_fetch(fetched) ==
  IF fetched.kind = "reject"
    THEN Throw(SeedKeyError(ERROR_CODES.NETWORK_ERROR, "Network error",
                            Undefined, Undefined))
    ELSE Return(fetched)

\* await response.json()
json(response) ==
  IF response.kind = "undecodable"
    THEN Throw(SyntaxError("Unexpected token"))
    ELSE Return(response.data)

\* The block if (!response.ok) { ... } of the operations of ApiClient:
\* new SeedKeyError(error.error || code, error.message || message)
ApiClient_failed(response, code, message) ==
  LET error == json(response)
  IN IF ~error.ok THEN error
     ELSE IF ~error.value.defined
       THEN Throw(TypeError("Cannot read properties of null"))
     ELSE Throw(SeedKeyError(Or(error.value.error, code),
                             Or(error.value.message, message),
                             Undefined, Undefined))

\* Faulty variant: ApiClient.getUser with the message of SeedKey.httpGet
ApiClient_getUser_GenericMessage(fetched) ==
  LET response == ApiClient_fetch(fetched)
      data == json(fetched)
  IN IF ~response.ok THEN response
     ELSE IF ~fetched.ok
       THEN ApiClient_failed(fetched, ERROR_CODES.SERVER_ERROR, "Server error")
     ELSE IF ~data.ok THEN data
     ELSE IF ~data.value.defined
       THEN Throw(TypeError("Cannot read properties of null"))
     ELSE Return(data.value.user)

\* ApiClient.getUser: data.user?.id for the log, return data.user
ApiClient_getUser(fetched) ==
  LET response == ApiClient_fetch(fetched)
      data == json(fetched)
  IN IF ~response.ok THEN response
     ELSE IF ~fetched.ok
       THEN ApiClient_failed(fetched, ERROR_CODES.SERVER_ERROR, "Failed to get user")
     ELSE IF ~data.ok THEN data
     ELSE IF ~data.value.defined
       THEN Throw(TypeError("Cannot read properties of null"))
     ELSE Return(data.value.user)

\* ApiClient.logout: the body of a success is not read
ApiClient_logout(fetched) ==
  LET response == ApiClient_fetch(fetched)
  IN IF ~response.ok THEN response
     ELSE IF ~fetched.ok
       THEN ApiClient_failed(fetched, ERROR_CODES.SERVER_ERROR, "Logout failed")
     ELSE Return(Undefined)

\* Faulty variant: ApiClient.refreshToken with the default code of the
\* other operations
ApiClient_refreshToken_ServerError(fetched) ==
  LET response == ApiClient_fetch(fetched)
      result == json(fetched)
  IN IF ~response.ok THEN response
     ELSE IF ~fetched.ok
       THEN ApiClient_failed(fetched, ERROR_CODES.SERVER_ERROR, "Token refresh failed")
     ELSE IF ~result.ok THEN result
     ELSE IF ~result.value.defined
       THEN Throw(TypeError("Cannot read properties of null"))
     ELSE result

\* ApiClient.refreshToken: result.expiresIn for the log, return result
ApiClient_refreshToken(fetched) ==
  LET response == ApiClient_fetch(fetched)
      result == json(fetched)
  IN IF ~response.ok THEN response
     ELSE IF ~fetched.ok
       THEN ApiClient_failed(fetched, ERROR_CODES.INVALID_TOKEN, "Token refresh failed")
     ELSE IF ~result.ok THEN result
     ELSE IF ~result.value.defined
       THEN Throw(TypeError("Cannot read properties of null"))
     ELSE result

\* The backend operations: those of SeedKey (register and verify: the
\* httpPost that ends the flow; what the flow makes of its result is
\* flowResume's) and those of ApiClient.
BackendOps ==
  {[client |-> "SeedKey", op |-> op] :
     op \in {"requestChallenge", "register", "verify", "getUser", "logout",
             "refreshToken"}}
  \cup {[client |-> "ApiClient", op |-> op] :
          op \in {"getUser", "logout", "refreshToken"}}

\* the operation b, from the fetch on
perform(b, fetched) ==
  IF b.client = "SeedKey"
    THEN IF b.op = "requestChallenge" THEN requestChallenge(fetched)
         ELSE IF b.op = "getUser" THEN getUser(fetched)
         ELSE IF b.op = "logout" THEN logout(fetched)
         ELSE IF b.op = "refreshToken" THEN refreshToken(fetched)
         ELSE httpPost(fetched)
  ELSE IF b.op = "getUser" THEN ApiClient_getUser(fetched)
  ELSE IF b.op = "logout" THEN ApiClient_logout(fetched)
  ELSE ApiClient_refreshToken(fetched)

\* What a backend operation resolves with: a body, a user, or undefined
\* (nothing returned, or the user of a body that has none)
Void == [type |-> "undefined", user |-> Undefined, body |-> NullBody]

Resolved(b, value) ==
  IF b.op = "logout" THEN Void
  ELSE IF b.op = "getUser"
    THEN IF value = Undefined THEN Void
         ELSE [type |-> "UserProfile", user |-> value, body |-> NullBody]
  ELSE [type |-> IF value.defined THEN "object" ELSE "null",
        user |-> Undefined, body |-> value]

\* { error?, message?, hint? } of a non-success response
HttpErrorBodies ==
  {[EmptyBody EXCEPT !.error = e, !.message = m, !.hint = h] :
     e \in {Undefined, ERROR_CODES.INVALID_TOKEN, ERROR_CODES.USER_NOT_FOUND},
     m \in {Undefined, "Token expired"},
     h \in {Undefined, "Please refresh your token"}}

\* the bodies of a success: null, { }, { user }, { challenge, challengeId }
HttpBodies ==
  {NullBody, EmptyBody, [EmptyBody EXCEPT !.user = "user1"],
   [EmptyBody EXCEPT !.challenge = "challenge1", !.challengeId = "cid1"]}

\* What the fetch of a backend operation comes to: it throws, or a response
\* arrives whose body cannot be decoded, or one with a body.
HttpOutcomes ==
  {FetchReject}
  \cup {Undecodable(ok) : ok \in BOOLEAN}
  \cup {[kind |-> "response", ok |-> FALSE, data |-> b] :
          b \in HttpErrorBodies \cup {NullBody}}
  \cup {[kind |-> "response", ok |-> TRUE, data |-> b] : b \in HttpBodies}

NoFetch == [kind |-> "none", ok |-> FALSE, data |-> NullBody]

\* fetched: what the fetch of the operation came to (history)
NewRequest(b) ==
  [client |-> b.client, op |-> b.op, state |-> "pending", fetched |-> NoFetch,
   result |-> Void, error |-> NoError]

\* the promise of the operation settles with what perform came to
Settled(request, fetched) ==
  LET b == [client |-> request.client, op |-> request.op]
      r == perform(b, fetched)
  IN IF r.ok
       THEN [request EXCEPT !.state = "resolved", !.fetched = fetched,
                            !.result = Resolved(b, r.value)]
       ELSE [request EXCEPT !.state = "rejected", !.fetched = fetched,
                            !.error = r.error]

\* what the backend operations leave alone
transport ==
  <<now, timeout, pendingRequests, timers, listening, calls, emitted,
    destroys, lastEvent, ops, page>>

\* A backend operation is called: its fetch is under way.
Call ==
  \E b \in BackendOps :
    /\ Len(http) < MaxRequests
    /\ http' = Append(http, NewRequest(b))
    /\ UNCHANGED <<transport, localStorage, ledger>>

\* The fetch of a backend operation comes to an end: the operation runs to
\* its return or its throw.
Reply ==
  \E i \in 1..Len(http) :
    /\ http[i].state = "pending"
    /\ \E fetched \in HttpOutcomes :
         http' = [http EXCEPT ![i] = Settled(http[i], fetched)]
    /\ UNCHANGED <<transport, localStorage, ledger>>

\* ---------------------------------------------------------- token storage
\* storage.ts, over window.localStorage and Date.now(). In StorageSpec the
\* clock is Date.now() in milliseconds, counted from the first reading (1).
STORAGE_KEYS ==
  [ACCESS_TOKEN |-> "seedkey_access_token",
   REFRESH_TOKEN |-> "seedkey_refresh_token",
   EXPIRES_AT |-> "seedkey_expires_at",
   USER_ID |-> "seedkey_user_id"]

\* A string is the sequence of its characters; null is no string.
Null == [null |-> TRUE, chars |-> <<>>]

String(chars) == [null |-> FALSE, chars |-> chars]

\* !!value of a string or null: neither null nor the empty string
Truthy(value) == ~value.null /\ value.chars # <<>>

EmptyStore == [key \in {} |-> <<>>]

\* localStorage.getItem(key)
getItem(store, key) ==
  IF key \in DOMAIN store THEN String(store[key]) ELSE Null

\* localStorage.setItem(key, value), value a string
setItem(store, key, value) ==
  [k \in DOMAIN store \cup {key} |-> IF k = key THEN value.chars ELSE store[k]]

\* localStorage.removeItem(key)
removeItem(store, key) ==
  [k \in DOMAIN store \ {key} |-> store[k]]

Digits == <<"0", "1", "2", "3", "4", "5", "6", "7", "8", "9">>

RECURSIVE decimal(_)
\* the decimal digits of a natural number
decimal(n) ==
  IF n < 10 THEN <<Digits[n + 1]>>
  ELSE Append(decimal(n \div 10), Digits[(n % 10) + 1])

\* Number.prototype.toString() of an integer
toString(n) ==
  String(IF n < 0 THEN <<"-">> \o decimal(0 - n) ELSE decimal(n))

\* A number: an integer or NaN
NaN == [nan |-> TRUE, n |-> 0]

Number(n) == [nan |-> FALSE, n |-> n]

IsDigit(c) == \E d \in 1..10 : Digits[d] = c

DigitValue(c) == (CHOOSE d \in 1..10 : Digits[d] = c) - 1

RECURSIVE leadingDigits(_, _)
\* the value of the digits chars begins with, after the value acc
leadingDigits(chars, acc) ==
  IF chars = <<>> \/ ~IsDigit(Head(chars)) THEN acc
  ELSE leadingDigits(Tail(chars), acc * 10 + DigitValue(Head(chars)))

\* parseInt(string, 10): an optional sign, then the digits up to the first
\* character that is none; NaN when there is no digit
parseInt(string) ==
  LET negative == string.chars # <<>> /\ Head(string.chars) = "-"
      signed == string.chars # <<>> /\ Head(string.chars) \in {"-", "+"}
      rest == IF signed THEN Tail(string.chars) ELSE string.chars
  IN IF rest = <<>> \/ ~IsDigit(Head(rest)) THEN NaN
     ELSE Number(IF negative THEN 0 - leadingDigits(rest, 0)
                             ELSE leadingDigits(rest, 0))

\* a > b - c on numbers: false when b is NaN
GreaterThanLess(a, b, c) == ~b.nan /\ a > b.n - c

\* Faulty variant: saveTokens that writes the user id whatever it is
saveTokens_AlwaysWritesUserId(store, clock, tokens, userId) ==
  LET s1 == setItem(store, STORAGE_KEYS.ACCESS_TOKEN, tokens.accessToken)
      s2 == setItem(s1, STORAGE_KEYS.REFRESH_TOKEN, tokens.refreshToken)
      expiresAt == clock + tokens.expiresIn * 1000
      s3 == setItem(s2, STORAGE_KEYS.EXPIRES_AT, toString(expiresAt))
  IN setItem(s3, STORAGE_KEYS.USER_ID,
             IF userId.null THEN String(<<"undefined">>) ELSE userId)

\* saveTokens(tokens, userId) at the reading clock of Date.now(); userId
\* Null: not given
saveTokens(store, clock, tokens, userId) ==
  LET s1 == setItem(store, STORAGE_KEYS.ACCESS_TOKEN, tokens.accessToken)
      s2 == setItem(s1, STORAGE_KEYS.REFRESH_TOKEN, tokens.refreshToken)
      expiresAt == clock + tokens.expiresIn * 1000
      s3 == setItem(s2, STORAGE_KEYS.EXPIRES_AT, toString(expiresAt))
  IN IF Truthy(userId) THEN setItem(s3, STORAGE_KEYS.USER_ID, userId) ELSE s3

getAccessToken(store) == getItem(store, STORAGE_KEYS.ACCESS_TOKEN)

getRefreshToken(store) == getItem(store, STORAGE_KEYS.REFRESH_TOKEN)

getUserId(store) == getItem(store, STORAGE_KEYS.USER_ID)

bufferMs == 5 * 60 * 1000

\* Faulty variant: isTokenExpired without the buffer
isTokenExpired_NoBuffer(store, clock) ==
  LET expiresAt == getItem(store, STORAGE_KEYS.EXPIRES_AT)
  IN IF ~Truthy(expiresAt) THEN TRUE
     ELSE GreaterThanLess(clock, parseInt(expiresAt), 0)

\* isTokenExpired() at the reading clock of Date.now()
isTokenExpired(store, clock) ==
  LET expiresAt == getItem(store, STORAGE_KEYS.EXPIRES_AT)
  IN IF ~Truthy(expiresAt) THEN TRUE
     ELSE GreaterThanLess(clock, parseInt(expiresAt), bufferMs)

hasToken(store) == Truthy(getAccessToken(store))

\* Faulty variant: clearTokens by localStorage.clear()
clearTokens_ClearsAll(store) == EmptyStore

clearTokens(store) ==
  LET s1 == removeItem(store, STORAGE_KEYS.ACCESS_TOKEN)
      s2 == removeItem(s1, STORAGE_KEYS.REFRESH_TOKEN)
      s3 == removeItem(s2, STORAGE_KEYS.EXPIRES_AT)
  IN removeItem(s3, STORAGE_KEYS.USER_ID)

\* Faulty variant: getSession that takes a stored access token for a session
\* in force
getSession_TrustsToken(store, clock) ==
  [accessToken |-> getAccessToken(store),
   refreshToken |-> getRefreshToken(store),
   userId |-> getUserId(store),
   isExpired |-> ~hasToken(store)]

getSession(store, clock) ==
  [accessToken |-> getAccessToken(store),
   refreshToken |-> getRefreshToken(store),
   userId |-> getUserId(store),
   isExpired |-> isTokenExpired(store, clock)]

\* The arguments the page gives saveTokens: tokens of the backend (the
\* access token may be the empty string), with or without a user id.
TokenInfos ==
  {[accessToken |-> String(a), refreshToken |-> String(<<"r">>), expiresIn |-> e] :
     a \in {<<"a">>, <<"b">>, <<>>}, e \in {3600, 60}}

UserIds == {Null, String(<<>>), String(<<"u">>)}

\* The readings of Date.now() at which the page calls the storage
\* functions: the first two, and, for tokens of one hour saved at these, the
\* readings about the buffer (5 min + 1 ms before the expiry, 5 min before
\* it, 1 ms later), 4 min before the expiry, and one past it.
Instants == {1, 2, 3300000, 3300001, 3300002, 3360001, 3700000}

NoSession == [accessToken |-> Null, refreshToken |-> Null, userId |-> Null,
              isExpired |-> TRUE]

\* the store with the values of the tokens and of the expiry left out (their
\* keys stay)
Found(store) ==
  [k \in DOMAIN store |->
     IF k \in {STORAGE_KEYS.ACCESS_TOKEN, STORAGE_KEYS.REFRESH_TOKEN,
               STORAGE_KEYS.EXPIRES_AT}
       THEN <<>> ELSE store[k]]

\* ledger: saved, the last call that wrote (saveTokens with its arguments
\* and its reading of the clock, or clearTokens; before: the keys that call
\* found in the store, with the user id and what is not of storage.ts), and
\* returned, the last call that read, with its reading of the clock and what
\* it returned
NoLedger ==
  [saved |-> [fn |-> "none", at |-> 0, accessToken |-> Null,
              refreshToken |-> Null, expiresIn |-> 0, userId |-> Null,
              before |-> EmptyStore],
   returned |-> [fn |-> "none", at |-> 0, session |-> NoSession,
                 boolean |-> FALSE]]

\* The page calls saveTokens(tokens, userId).
SaveTokens ==
  \E tokens \in TokenInfos, userId \in UserIds :
    /\ localStorage' = saveTokens(localStorage, now, tokens, userId)
    /\ ledger' = [NoLedger EXCEPT
                    !.saved = [fn |-> "saveTokens", at |-> now,
                               accessToken |-> tokens.accessToken,
                               refreshToken |-> tokens.refreshToken,
                               expiresIn |-> tokens.expiresIn,
                               userId |-> userId,
                               before |-> Found(localStorage)]]
    /\ UNCHANGED <<transport, http>>

\* The page calls clearTokens().
ClearTokens ==
  /\ localStorage' = clearTokens(localStorage)
  /\ ledger' = [NoLedger EXCEPT !.saved.fn = "clearTokens", !.saved.at = now,
                                !.saved.before = Found(localStorage)]
  /\ UNCHANGED <<transport, http>>

\* The page calls getSession().
GetSession ==
  /\ ledger' = [ledger EXCEPT
                  !.returned = [NoLedger.returned EXCEPT
                                  !.fn = "getSession", !.at = now,
                                  !.session = getSession(localStorage, now)]]
  /\ UNCHANGED <<transport, http, localStorage>>

\* The page calls isTokenExpired().
IsTokenExpired ==
  /\ ledger' = [ledger EXCEPT
                  !.returned = [NoLedger.returned EXCEPT
                                  !.fn = "isTokenExpired", !.at = now,
                                  !.boolean = isTokenExpired(localStorage, now)]]
  /\ UNCHANGED <<transport, http, localStorage>>

\* The page calls hasToken().
HasToken ==
  /\ ledger' = [ledger EXCEPT
                  !.returned = [NoLedger.returned EXCEPT
                                  !.fn = "hasToken", !.at = now,
                                  !.boolean = hasToken(localStorage)]]
  /\ UNCHANGED <<transport, http, localStorage>>

\* What the rest of the page keeps in the same store: a key that is none of
\* STORAGE_KEYS, with a value
OtherItems == {[key |-> "other_key", value |-> String(<<"x">>)]}

\* Other code of the page writes a key of its own.
SetOther ==
  /\ \E item \in OtherItems :
       localStorage' = setItem(localStorage, item.key, item.value)
  /\ UNCHANGED <<transport, http, ledger>>

\* Time passes between two calls.
Elapse ==
  /\ \E t \in Instants : t > now /\ now' = t
  /\ UNCHANGED <<timeout, pendingRequests, timers, listening, calls, emitted,
                 destroys, lastEvent, ops, http, localStorage, ledger, page>>

\* ------------------------------------------------------------ operations
OpKinds ==
  {"isAvailable", "isInitialized", "checkExtension", "getExtensionStatus",
   "register", "authenticate", "auth"}

\* What an operation resolves with: a boolean (the probes), an
\* ExtensionStatus, an AuthResult; the properties it lacks are undefined.
NoValue ==
  [type |-> "undefined", bool |-> FALSE, installed |-> FALSE,
   initialized |-> FALSE, downloadUrl |-> Undefined,
   user |-> Undefined, action |-> Undefined]

Boolean(b) == [NoValue EXCEPT !.type = "boolean", !.bool = b]

ExtensionStatus(installed, initialized, downloadUrl) ==
  [NoValue EXCEPT !.type = "ExtensionStatus", !.installed = installed,
                  !.initialized = initialized, !.downloadUrl = downloadUrl]

\* Faulty variant: { action, ...result }: the action of the backend wins
Tagged_BackendWins(result, action) ==
  [NoValue EXCEPT !.type = "AuthResult", !.user = result.user,
                  !.action = Or(result.action, action)]

\* { ...result, action }: the properties of result, action replaced
Tagged(result, action) ==
  [NoValue EXCEPT !.type = "AuthResult", !.user = result.user, !.action = action]

\* The arguments of a step an operation issued (history); undefined where
\* the step has none.
NoPayload ==
  [publicKey |-> Undefined, action |-> Undefined, challenge |-> Undefined,
   challengeId |-> Undefined, signature |-> Undefined]

\* pc: the await the operation is parked at; call: the sendToExtension call
\* awaited (0: a fetch, or nothing); flow: register or authenticate while it
\* runs; locals: publicKey, challenge, challengeId, signature of the flow.
\* History: steps, the requests it has issued to the custodian and to the
\* backend, and what each came to; thrown, the errors register and
\* authenticate have thrown to their caller; received, the action of the
\* AuthResult the backend has sent.
NewOp(kind) ==
  [kind |-> kind, flow |-> "", pc |-> "start", call |-> 0,
   state |-> "pending", result |-> NoValue, error |-> NoError,
   steps |-> <<>>, thrown |-> <<>>, received |-> Undefined,
   locals |-> NoPayload]

OpIds == 1..Len(ops)

\* the operation o issues a step: a request to the custodian (through the
\* call c) or to the backend (c = 0), with the arguments in payload
Issue(S, o, step, c, payload) ==
  [S EXCEPT !.ops[o].steps =
     Append(@, [flow |-> S.ops[o].flow, step |-> step, call |-> c,
                payload |-> payload, state |-> "pending", error |-> NoError,
                returned |-> NoPayload, reply |-> NullBody])]

\* the last step of the operation o has come to r (history)
Completed(S, o, r) ==
  [S EXCEPT !.ops[o].steps[Len(S.ops[o].steps)] =
     [@ EXCEPT !.state = IF r.ok THEN "succeeded" ELSE "failed",
               !.error = r.error]]

\* the body of the success response the backend has sent to the last step
\* of the operation o (history)
Replied(S, o, fetched) ==
  IF fetched.kind = "response" /\ fetched.ok
    THEN [S EXCEPT !.ops[o].steps[Len(S.ops[o].steps)].reply = fetched.data]
    ELSE S

\* what the flow has taken from the answer to its last step (history)
Got(S, o, values) ==
  [S EXCEPT !.ops[o].steps[Len(S.ops[o].steps)].returned = values]

\* the operation o awaits sendToExtension(action, ..., customTimeout)
AwaitCall(S, o, pc, action, customTimeout, payload, clock, suffix) ==
  LET c == Len(S.calls) + 1
      S1 == Issue(S, o, action, c, payload)
      S2 == [S1 EXCEPT !.ops[o].pc = pc, !.ops[o].call = c]
  IN sendToExtension(S2, action, customTimeout, clock, suffix, NoResponse)

\* the operation o awaits httpPost(path, body): the fetch is under way
AwaitFetch(S, o, pc, path, payload) ==
  LET S1 == Issue(S, o, path, 0, payload)
  IN [S1 EXCEPT !.ops[o].pc = pc, !.ops[o].call = 0]

\* the promise of the operation o settles
OpResolve(S, o, value) ==
  [S EXCEPT !.ops[o].state = "resolved", !.ops[o].result = value,
            !.ops[o].pc = "done", !.ops[o].call = 0]

OpReject(S, o, error) ==
  [S EXCEPT !.ops[o].state = "rejected", !.ops[o].error = error,
            !.ops[o].pc = "done", !.ops[o].call = 0]

\* ------------------------------------------------------------ the probes
\* Faulty variant: isAvailable without its catch
isAvailable_Rethrows(r) ==
  IF ~r.ok THEN r
  ELSE IF ~r.value.defined THEN Throw(TypeError("Cannot read properties of undefined"))
  ELSE Return(Get(r.value, "available") = "true")

\* SeedKey.isAvailable after its await: response.available === true, and
\* false for whatever is thrown (the rejection, the read of undefined)
isAvailable(r) ==
  IF ~r.ok THEN Return(FALSE)
  ELSE IF ~r.value.defined THEN Return(FALSE)
  ELSE Return(Get(r.value, "available") = "true")

\* SeedKey.isInitialized after its await
isInitialized(r) ==
  IF ~r.ok THEN Return(FALSE)
  ELSE IF ~r.value.defined THEN Return(FALSE)
  ELSE Return(Get(r.value, "initialized") = "true")

\* Faulty variant: checkExtension that probes the initialization whatever
\* the availability
checkExtension_ProbesAnyway(S, o, b, clock, suffix) ==
  IF S.ops[o].pc = "isAvailable"
    THEN AwaitCall(S, o, "isInitialized", "is_initialized", PROBE_TIMEOUT,
                   NoPayload, clock, suffix)
  ELSE IF ~b THEN OpReject(S, o, ExtensionNotConfiguredError)
  ELSE OpResolve(S, o, ExtensionStatus(TRUE, TRUE, Undefined))

\* SeedKey.checkExtension from the return of a probe on; b: what the probe
\* it awaited (isAvailable, then isInitialized) has returned
checkExtension(S, o, b, clock, suffix) ==
  IF S.ops[o].pc = "isAvailable"
    THEN IF ~b THEN OpReject(S, o, ExtensionNotFoundError_default)
         ELSE AwaitCall(S, o, "isInitialized", "is_initialized", PROBE_TIMEOUT,
                        NoPayload, clock, suffix)
  ELSE IF ~b THEN OpReject(S, o, ExtensionNotConfiguredError)
  ELSE OpResolve(S, o, ExtensionStatus(TRUE, TRUE, Undefined))

\* Faulty variant: getExtensionStatus that names the download URL always
getExtensionStatus_AlwaysUrl(S, o, b, clock, suffix) ==
  IF S.ops[o].pc = "isAvailable"
    THEN IF ~b
           THEN OpResolve(S, o, ExtensionStatus(FALSE, FALSE, EXTENSION_DOWNLOAD_URL))
         ELSE AwaitCall(S, o, "isInitialized", "is_initialized", PROBE_TIMEOUT,
                        NoPayload, clock, suffix)
  ELSE OpResolve(S, o, ExtensionStatus(TRUE, b, EXTENSION_DOWNLOAD_URL))

\* SeedKey.getExtensionStatus from the return of a probe on
getExtensionStatus(S, o, b, clock, suffix) ==
  IF S.ops[o].pc = "isAvailable"
    THEN IF ~b
           THEN OpResolve(S, o, ExtensionStatus(FALSE, FALSE, EXTENSION_DOWNLOAD_URL))
         ELSE AwaitCall(S, o, "isInitialized", "is_initialized", PROBE_TIMEOUT,
                        NoPayload, clock, suffix)
  ELSE OpResolve(S, o, ExtensionStatus(TRUE, b, Undefined))

\* The continuation of isAvailable, isInitialized, checkExtension and
\* getExtensionStatus when the request of a probe has come to r: the probe
\* returns, and its caller goes on. (A probe that threw would reject its
\* caller.)
probes(S0, o, r, clock, suffix) ==
  LET kind == S0.ops[o].kind
      S == Completed(S0, o, r)
      p == IF S.ops[o].pc = "isAvailable" THEN isAvailable(r) ELSE isInitialized(r)
  IN IF ~p.ok THEN OpReject(S, o, p.error)
     ELSE IF kind \in {"isAvailable", "isInitialized"}
       THEN OpResolve(S, o, Boolean(p.value))
     ELSE IF kind = "checkExtension"
       THEN checkExtension(S, o, p.value, clock, suffix)
     ELSE getExtensionStatus(S, o, p.value, clock, suffix)

\* ------------------------------------------------------------- the flows
\* What register and authenticate differ in: the action of the challenge,
\* the path of the last request, the action of the result.
Flows ==
  [register |-> [action |-> "register", path |-> "/api/v1/seedkey/register",
                 tag |-> "register"],
   authenticate |-> [action |-> "authenticate", path |-> "/api/v1/seedkey/verify",
                     tag |-> "login"]]

\* SeedKey.getPublicKey after its await: response.publicKey (whose slice is
\* logged: a TypeError when the response has no publicKey)
getPublicKey(r) ==
  IF ~r.ok THEN r
  ELSE IF ~r.value.defined \/ Get(r.value, "publicKey") = Undefined
    THEN Throw(TypeError("Cannot read properties of undefined"))
  ELSE Return(Get(r.value, "publicKey"))

\* Faulty variant: signChallenge that goes on when the custodian refused
signChallenge_IgnoresFailure(r) ==
  IF ~r.ok THEN Return(Object("signature", "sig1"))
  ELSE IF ~r.value.defined \/ Get(r.value, "signature") = Undefined
    THEN Throw(TypeError("Cannot read properties of undefined"))
  ELSE r

\* SeedKey.signChallenge after its await: the response (the length of whose
\* signature is logged: a TypeError when it has none)
signChallenge(r) ==
  IF ~r.ok THEN r
  ELSE IF ~r.value.defined \/ Get(r.value, "signature") = Undefined
    THEN Throw(TypeError("Cannot read properties of undefined"))
  ELSE r

\* Faulty variant: the flow takes the publicKey of the sign_challenge
\* response along with its signature
Signed_TakesKey(locals, response) ==
  [locals EXCEPT !.signature = Get(response, "signature"),
                 !.publicKey = IF Get(response, "publicKey") # Undefined
                                 THEN Get(response, "publicKey") ELSE @]

\* const { signature } = await this.signChallenge(challenge): of the
\* response the flow takes the signature, and nothing else
Signed(locals, response) ==
  [locals EXCEPT !.signature = Get(response, "signature")]

\* A flow either is parked at its next await or has come to an end.
Parked(S) == [S |-> S, done |-> FALSE, outcome |-> Throw(NoError)]

\* Faulty variant: a flow that returns what it has when a step fails
Done_ReturnsPartial(S, outcome) ==
  [S |-> S, done |-> TRUE,
   outcome |-> IF outcome.ok THEN outcome ELSE Return(Tagged(EmptyBody, Undefined))]

Done(S, outcome) == [S |-> S, done |-> TRUE, outcome |-> outcome]

\* Faulty variant: a flow that has a publicKey from an earlier run goes
\* straight to its challenge
flowStart_ReusesKey(S, o, flow, clock, suffix) ==
  IF S.ops[o].locals.publicKey # Undefined
    THEN Parked(AwaitFetch([S EXCEPT !.ops[o].flow = flow], o,
                           "requestChallenge", "/api/v1/seedkey/challenge",
                           [NoPayload EXCEPT
                              !.publicKey = S.ops[o].locals.publicKey,
                              !.action = Flows[flow].action]))
    ELSE Parked(AwaitCall([S EXCEPT !.ops[o].flow = flow, !.ops[o].locals = NoPayload],
                          o, "getPublicKey", "get_public_key", 0, NoPayload,
                          clock, suffix))

\* register() and authenticate() up to their first await: getPublicKey()
flowStart(S, o, flow, clock, suffix) ==
  Parked(AwaitCall([S EXCEPT !.ops[o].flow = flow, !.ops[o].locals = NoPayload],
                   o, "getPublicKey", "get_public_key", 0, NoPayload,
                   clock, suffix))

\* The body of register() and authenticate() from one await to the next;
\* r: what the awaited request or fetch came to. The catch of both rethrows
\* the error as it is.
flowResume(S0, o, r, clock, suffix) ==
  LET op == S0.ops[o]
      F == Flows[op.flow]
      S == IF op.call # 0 THEN Completed(S0, o, r)
           ELSE IF op.pc = "requestChallenge"
             THEN Replied(Completed(S0, o, requestChallenge(r)), o, r)
           ELSE Replied(Completed(S0, o, httpPost(r)), o, r)
  IN IF op.pc = "getPublicKey"
       THEN LET k == getPublicKey(r)
                l == [NoPayload EXCEPT !.publicKey = k.value]
            IN IF ~k.ok THEN Done(S, k)
               ELSE Parked(AwaitFetch(Got([S EXCEPT !.ops[o].locals = l], o, l), o,
                                      "requestChallenge", "/api/v1/seedkey/challenge",
                                      [l EXCEPT !.action = F.action]))
     ELSE IF op.pc = "requestChallenge"
       THEN LET h == requestChallenge(r)
                l == [op.locals EXCEPT !.challenge = h.value.challenge,
                                       !.challengeId = h.value.challengeId]
            IN IF ~h.ok THEN Done(S, h)
               ELSE IF h.value.challenge = Undefined
                 THEN Done(S, Throw(TypeError("Cannot read properties of undefined")))
               ELSE Parked(AwaitCall(
                             Got([S EXCEPT !.ops[o].locals = l], o,
                                 [NoPayload EXCEPT !.challenge = l.challenge,
                                                   !.challengeId = l.challengeId]),
                             o, "signChallenge", "sign_challenge", 0,
                             [NoPayload EXCEPT !.challenge = l.challenge],
                             clock, suffix))
     ELSE IF op.pc = "signChallenge"
       THEN LET g == signChallenge(r)
                l == Signed(op.locals, g.value)
            IN IF ~g.ok THEN Done(S, g)
               ELSE Parked(AwaitFetch(
                             Got([S EXCEPT !.ops[o].locals = l], o,
                                 [NoPayload EXCEPT !.signature = l.signature]),
                             o, "httpPost", F.path,
                                      IF op.flow = "register"
                                        THEN [l EXCEPT !.challengeId = Undefined]
                                        ELSE l))
     ELSE LET h == httpPost(r)
          IN IF ~h.ok THEN Done(S, h)
             ELSE IF h.value.user = Undefined
               THEN Done(S, Throw(TypeError("Cannot read properties of undefined")))
             ELSE Done([S EXCEPT !.ops[o].received = h.value.action],
                       Return(Tagged(h.value, F.tag)))

\* Faulty variant of the catch of auth: any SeedKeyError starts register
FallsBack_AnySeedKeyError(error) ==
  InstanceOfSeedKeyError(error)

\* The catch of auth: error instanceof SeedKeyError && error.code ===
\* ERROR_CODES.USER_NOT_FOUND
FallsBack(error) ==
  InstanceOfSeedKeyError(error) /\ error.code = ERROR_CODES.USER_NOT_FOUND

\* Faulty variant: auth that falls back again when its register has failed
auth_Loops(S, o, F, clock, suffix) ==
  LET S1 == [F.S EXCEPT !.ops[o].thrown = Append(@, F.outcome.error)]
  IN IF ~F.done THEN F.S
     ELSE IF F.outcome.ok THEN OpResolve(F.S, o, F.outcome.value)
     ELSE IF S1.ops[o].kind = "auth" /\ FallsBack(F.outcome.error)
       THEN flowStart(S1, o, "register", clock, suffix).S
     ELSE OpReject(S1, o, F.outcome.error)

\* The caller of a flow: register() and authenticate() settle with what the
\* flow came to; auth() does so too, but for the failure of its authenticate
\* that FallsBack selects: it then returns what register(opts) comes to.
auth(S, o, F, clock, suffix) ==
  LET S1 == [F.S EXCEPT !.ops[o].thrown = Append(@, F.outcome.error)]
  IN IF ~F.done THEN F.S
     ELSE IF F.outcome.ok THEN OpResolve(F.S, o, F.outcome.value)
     ELSE IF /\ S1.ops[o].kind = "auth"
             /\ S1.ops[o].flow = "authenticate"
             /\ FallsBack(F.outcome.error)
       THEN flowStart(S1, o, "register", clock, suffix).S
     ELSE OpReject(S1, o, F.outcome.error)

\* ------------------------------------------------- running the operations
IsFlow(kind) == kind \in {"register", "authenticate", "auth"}

\* A public operation, from its call to its first await.
start(S, kind, clock, suffix) ==
  LET o == Len(S.ops) + 1
      S0 == [S EXCEPT !.ops = Append(@, NewOp(kind))]
  IN IF IsFlow(kind)
       THEN flowStart(S0, o, IF kind = "register" THEN "register" ELSE "authenticate",
                      clock, suffix).S
     ELSE IF kind = "isInitialized"
       THEN AwaitCall(S0, o, "isInitialized", "is_initialized", PROBE_TIMEOUT,
                      NoPayload, clock, suffix)
     ELSE AwaitCall(S0, o, "isAvailable", "check_available", PROBE_TIMEOUT,
                    NoPayload, clock, suffix)

\* The continuation of the operation o, from the await that has come to r to
\* its next await or its end.
resume(S, o, r, clock, suffix) ==
  IF IsFlow(S.ops[o].kind)
    THEN auth(S, o, flowResume(S, o, r, clock, suffix), clock, suffix)
    ELSE probes(S, o, r, clock, suffix)

\* In OpSpec the requests of the operations are sent at different readings
\* of the clock: a send reads a later millisecond than the send before it.
\* Their ids then differ whatever Math.random() gives, so one suffix stands
\* for all. (Requests sent in the same millisecond are the case of Spec.)
OpSuffixes == {CHOOSE suffix \in RandomSuffixes : TRUE}

\* A step of an operation that takes the instance to S: the clock has been
\* read if the step has sent a request.
Run(S) ==
  /\ Install(S)
  /\ now' = IF Len(S.calls) > Len(calls) THEN now + 1 ELSE now
  /\ UNCHANGED <<timeout, destroys, outside>>

\* The page calls a public operation.
Invoke ==
  \E kind \in OpKinds, suffix \in OpSuffixes :
    /\ Len(ops) < MaxOps
    /\ Run(start(State, kind, now + 1, suffix))

\* The request an operation awaits has settled: its continuation runs.
Continue ==
  \E o \in OpIds, suffix \in OpSuffixes :
    /\ ops[o].call # 0
    /\ calls[ops[o].call].state # "pending"
    /\ Run(resume(State, o, Awaited(State, ops[o].call), now + 1, suffix))

\* The fetch an operation awaits has come to an end: its continuation runs.
Fetched ==
  \E o \in OpIds, suffix \in OpSuffixes :
    /\ ops[o].state = "pending"
    /\ ops[o].call = 0
    /\ \E fetched \in FetchOutcomes(ops[o].steps[Len(ops[o].steps)].step) :
         Run(resume(State, o, fetched, now + 1, suffix))

\* What the custodian may answer to a request of an action: the result the
\* action calls for, one that lacks it, or an error.
ResultsOf(action) ==
  IF action = "check_available"
    THEN {Object("available", v) : v \in {"true", "false", "yes"}}
           \cup {Object("", ""), UndefinedResult}
  ELSE IF action = "is_initialized"
    THEN {Object("initialized", v) : v \in {"true", "false", "yes"}}
           \cup {Object("", ""), UndefinedResult}
  ELSE IF action = "get_public_key" THEN {Object("publicKey", "pk1"), UndefinedResult}
  ELSE {Object("signature", "sig1"), UndefinedResult}

AnswerErrors ==
  (ErrorDetails \ {NoErrorDetail})
  \cup {[present |-> TRUE, code |-> ERROR_CODES.USER_NOT_FOUND, message |-> "no user"]}

AnswersFor(call) ==
  {[detail |-> TRUE, type |-> "SEEDKEY_RESPONSE", requestId |-> call.requestId,
    success |-> TRUE, result |-> v, error |-> NoErrorDetail] :
     v \in ResultsOf(call.action)}
  \cup
  {[detail |-> TRUE, type |-> "SEEDKEY_RESPONSE", requestId |-> call.requestId,
    success |-> FALSE, result |-> UndefinedResult, error |-> e] : e \in AnswerErrors}

\* The custodian answers a request in flight.
Answer ==
  \E c \in CallIds :
    /\ calls[c].state = "pending"
    /\ \E data \in AnswersFor(calls[c]) : Deliver(data)

\* ------------------------------------------- custodians of several keys
\* A custodian that holds two keys and a backend that issues two challenges:
\* each request of a flow may be answered with other values than the
\* request before it. The sign_challenge response carries the signature and
\* the publicKey of the key that signed.
KeyedResultsOf(action) ==
  IF action = "get_public_key"
    THEN {Object("publicKey", pk) : pk \in {"pk1", "pk2"}}
  ELSE IF action = "sign_challenge"
    THEN {Object2("signature", "sig1", "publicKey", "pk1"),
          Object2("signature", "sig2", "publicKey", "pk2")}
  ELSE {}

\* The backend issues one of two challenges, accepts, or knows no such user.
KeyedOutcomes(path) ==
  {[kind |-> "response", ok |-> FALSE,
    data |-> [EmptyBody EXCEPT !.error = ERROR_CODES.USER_NOT_FOUND,
                               !.message = "refused"]]}
  \cup {[kind |-> "response", ok |-> TRUE, data |-> b] :
          b \in IF path = "/api/v1/seedkey/challenge"
                  THEN {[EmptyBody EXCEPT !.challenge = "challenge1",
                                          !.challengeId = "cid1"],
                        [EmptyBody EXCEPT !.challenge = "challenge2",
                                          !.challengeId = "cid2"]}
                  ELSE {[EmptyBody EXCEPT !.user = "user1", !.action = "login"]}}

\* The page calls register(), authenticate() or auth(), having awaited the
\* flow it called before.
InvokeKeyed ==
  \E kind \in {k \in OpKinds : IsFlow(k)}, suffix \in OpSuffixes :
    /\ Len(ops) < MaxKeyed
    /\ \A o \in OpIds : ops[o].state # "pending"
    /\ Run(start(State, kind, now + 1, suffix))

\* The custodian answers a request in flight with one of its keys.
AnswerKeyed ==
  \E c \in CallIds :
    /\ calls[c].state = "pending"
    /\ \E v \in KeyedResultsOf(calls[c].action) :
         Deliver([detail |-> TRUE, type |-> "SEEDKEY_RESPONSE",
                  requestId |-> calls[c].requestId, success |-> TRUE,
                  result |-> v, error |-> NoErrorDetail])

\* The fetch an operation awaits has come to an end.
FetchedKeyed ==
  \E o \in OpIds, suffix \in OpSuffixes :
    /\ ops[o].state = "pending"
    /\ ops[o].call = 0
    /\ \E fetched \in KeyedOutcomes(ops[o].steps[Len(ops[o].steps)].step) :
         Run(resume(State, o, fetched, now + 1, suffix))

\* ------------------------------------------------- the objects of the page
\* SeedKeyOptions as the page gives them: none, or { backendUrl }
NoOptions == [given |-> FALSE, backendUrl |-> Undefined]

SeedKeyOptions ==
  {NoOptions}
  \cup {[given |-> TRUE, backendUrl |-> url] :
          url \in {"https://api.example.com", "https://other.com"}}

\* The fields of a SeedKey object after its constructor: an empty table, the
\* listener attached. (S: its fields as the handlers map them; destroys: how
\* often its destroy() has run.)
new_SeedKey(options) ==
  [backendUrl |-> options.backendUrl,
   S |-> [pendingRequests |-> <<>>, timers |-> {}, listening |-> TRUE,
          calls |-> <<>>, emitted |-> {}, lastEvent |-> Event("new", 0, NoId),
          ops |-> <<>>],
   destroys |-> 0]

\* Of the objects of the page the history of events is not kept.
Kept(S) == [S EXCEPT !.lastEvent = Event("new", 0, NoId)]

\* object.destroy() of a SeedKey object of the page
Instance_destroy(object) ==
  [object EXCEPT !.S = Kept(destroy(@)), !.destroys = Inc(@)]

\* The objects of the page and the module variables, as a record the
\* functions of the module map.
Page ==
  [instances |-> instances, defaultInstance |-> defaultInstance,
   apiClients |-> apiClients, apiClientInstance |-> apiClientInstance]

\* What getSeedKey and getApiClient come to: the object returned (its place),
\* or threw
Returned(P, instance) == [P |-> P, threw |-> FALSE, instance |-> instance]

Threw(P) == [P |-> P, threw |-> TRUE, instance |-> 0]

\* Faulty variant: getSeedKey that builds an object whenever options are given
getSeedKey_Rebuilds(P, options) ==
  LET P1 == IF options.given
              THEN [P EXCEPT !.instances = Append(@, new_SeedKey(options)),
                             !.defaultInstance = Len(P.instances) + 1]
              ELSE P
  IN IF P1.defaultInstance = 0 THEN Threw(P1)
     ELSE Returned(P1, P1.defaultInstance)

\* getSeedKey(options)
getSeedKey(P, options) ==
  LET P1 == IF P.defaultInstance = 0 /\ options.given
              THEN [P EXCEPT !.instances = Append(@, new_SeedKey(options)),
                             !.defaultInstance = Len(P.instances) + 1]
              ELSE P
  IN IF P1.defaultInstance = 0 THEN Threw(P1)
     ELSE Returned(P1, P1.defaultInstance)

\* resetSeedKey()
resetSeedKey(P) ==
  IF P.defaultInstance # 0
    THEN [P EXCEPT !.instances[P.defaultInstance] = Instance_destroy(@),
                   !.defaultInstance = 0]
    ELSE P

\* The baseUrl the page gives getApiClient: none, the empty string, a URL
BaseUrls == {Undefined, "", "https://api.example.com", "https://other.com"}

\* getApiClient(baseUrl): the object is built for a baseUrl that is truthy
getApiClient(P, baseUrl) ==
  LET P1 == IF P.apiClientInstance = 0 /\ Or(baseUrl, Undefined) # Undefined
              THEN [P EXCEPT !.apiClients = Append(@, baseUrl),
                             !.apiClientInstance = Len(P.apiClients) + 1]
              ELSE P
  IN IF P1.apiClientInstance = 0 THEN Threw(P1)
     ELSE Returned(P1, P1.apiClientInstance)

\* resetApiClient()
resetApiClient(P) == [P EXCEPT !.apiClientInstance = 0]

InstallPage(P) ==
  /\ instances' = P.instances
  /\ defaultInstance' = P.defaultInstance
  /\ apiClients' = P.apiClients
  /\ apiClientInstance' = P.apiClientInstance

\* singletonCalls: last, the last call of getSeedKey, getApiClient or a reset
\* (built: the objects of its class there were before it); seedKey and
\* apiClient, the first call since the reset (or the start) that gave options
\* resp. a baseUrl, with the object it returned
NoFirst == [given |-> FALSE, url |-> Undefined, instance |-> 0]

NoSingletonCalls ==
  [last |-> [fn |-> "none", given |-> FALSE, url |-> Undefined,
             threw |-> FALSE, instance |-> 0, built |-> 0],
   seedKey |-> NoFirst, apiClient |-> NoFirst]

\* what is not of the page
notPage ==
  <<now, timeout, pendingRequests, timers, listening, calls, emitted,
    destroys, lastEvent, ops, http, localStorage, ledger>>

\* The page calls getSeedKey(options), or getSeedKey().
GetSeedKey ==
  \E options \in SeedKeyOptions :
    LET g == getSeedKey(Page, options)
    IN /\ Len(g.P.instances) <= MaxInstances
       /\ InstallPage(g.P)
       /\ singletonCalls' =
            [singletonCalls EXCEPT
               !.last = [fn |-> "getSeedKey", given |-> options.given,
                         url |-> options.backendUrl, threw |-> g.threw,
                         instance |-> g.instance, built |-> Len(instances)],
               !.seedKey = IF ~@.given /\ options.given
                             THEN [given |-> TRUE, url |-> options.backendUrl,
                                   instance |-> g.instance]
                             ELSE @]
       /\ UNCHANGED notPage

\* The page calls resetSeedKey().
ResetSeedKey ==
  /\ InstallPage(resetSeedKey(Page))
  /\ singletonCalls' =
       [singletonCalls EXCEPT
          !.last = [NoSingletonCalls.last EXCEPT !.fn = "resetSeedKey",
                                                 !.built = Len(instances)],
          !.seedKey = NoFirst]
  /\ UNCHANGED notPage

\* The page calls getApiClient(baseUrl), or getApiClient().
GetApiClient ==
  \E baseUrl \in BaseUrls :
    LET g == getApiClient(Page, baseUrl)
        given == baseUrl \notin {Undefined, ""}
    IN /\ Len(g.P.apiClients) <= MaxInstances
       /\ InstallPage(g.P)
       /\ singletonCalls' =
            [singletonCalls EXCEPT
               !.last = [fn |-> "getApiClient", given |-> given,
                         url |-> baseUrl, threw |-> g.threw,
                         instance |-> g.instance, built |-> Len(apiClients)],
               !.apiClient = IF ~@.given /\ given
                               THEN [given |-> TRUE, url |-> baseUrl,
                                     instance |-> g.instance]
                               ELSE @]
       /\ UNCHANGED notPage

\* The page calls resetApiClient().
ResetApiClient ==
  /\ InstallPage(resetApiClient(Page))
  /\ singletonCalls' =
       [singletonCalls EXCEPT
          !.last = [NoSingletonCalls.last EXCEPT !.fn = "resetApiClient",
                                                 !.built = Len(apiClients)],
          !.apiClient = NoFirst]
  /\ UNCHANGED notPage

\* sendToExtension on the object i of the page: the call records how often
\* that object had been destroyed
Instance_send(object, action, clock, suffix) ==
  LET S1 == sendToExtension(object.S, action, CustomTimeoutOf(action),
                            clock, suffix, NoResponse)
  IN [object EXCEPT
        !.S = Kept([S1 EXCEPT !.calls[Len(S1.calls)].epoch = object.destroys])]

\* the requests the objects 1..i of the page have sent
Sent(i) == Len(instances[i].S.calls)

RECURSIVE SentUpTo(_)
SentUpTo(i) == IF i = 0 THEN 0 ELSE Sent(i) + SentUpTo(i - 1)

\* sendToExtension(action) is called on the object i of the page.
SendOn(i, action, suffix) ==
  /\ SentUpTo(Len(instances)) < MaxPageSends
  /\ instances' = [instances EXCEPT ![i] = Instance_send(@, action, now, suffix)]
  /\ UNCHANGED <<notPage, defaultInstance, apiClients, apiClientInstance,
                 singletonCalls>>

\* The page calls getPublicKey() on the object getSeedKey() gives it. Two
\* calls may fall in the same millisecond and draw the same suffix.
DefaultSend ==
  /\ defaultInstance # 0
  /\ \E suffix \in RandomSuffixes :
       SendOn(defaultInstance, "get_public_key", suffix)

\* The page calls getPublicKey() on one of the objects it has built. Calls
\* on two objects may fall in the same millisecond and draw the same suffix.
InstanceSend ==
  \E i \in 1..Len(instances), suffix \in RandomSuffixes :
    SendOn(i, "get_public_key", suffix)

\* The page builds a SeedKey object of its own for a backend, one per
\* backend.
Construct ==
  \E options \in SeedKeyOptions \ {NoOptions} :
    /\ \A i \in 1..Len(instances) : instances[i].backendUrl # options.backendUrl
    /\ instances' = Append(instances, new_SeedKey(options))
    /\ UNCHANGED <<notPage, defaultInstance, apiClients, apiClientInstance,
                   singletonCalls>>

\* The listener of an object of the page, called with the event
Instance_handleResponse(object, data) ==
  [object EXCEPT !.S = Kept(DispatchResponse(@, data))]

\* The response events the page may see: for the id of any request an
\* object has sent, or for none of them; a success, a failure that names no
\* error, an event of another type
PageResponses ==
  UNION {{data \in ResponsesFor(requestId) :
            data.detail /\ data.error = NoErrorDetail} :
           requestId \in {NoId} \cup
             UNION {{instances[i].S.calls[c].requestId :
                       c \in 1..Len(instances[i].S.calls)} :
                     i \in 1..Len(instances)}}

\* document.dispatchEvent of a response event: the listener of every object
\* that has one attached is called with it.
Dispatch(data) ==
  /\ instances' = [i \in 1..Len(instances) |->
                     Instance_handleResponse(instances[i], data)]
  /\ UNCHANGED <<notPage, defaultInstance, apiClients, apiClientInstance,
                 singletonCalls>>

Broadcast ==
  /\ instances # <<>>
  /\ \E data \in PageResponses : Dispatch(data)

\* The timer t of the object i fires.
InstanceTimeout ==
  \E i \in 1..Len(instances) :
    \E t \in instances[i].S.timers :
      /\ instances' = [instances EXCEPT ![i].S = Kept(timeoutCallback(@, t))]
      /\ now' = IF t.delay > 0 /\ now <= t.armedAt THEN t.armedAt + 1 ELSE now
      /\ UNCHANGED <<timeout, pendingRequests, timers, listening, calls, emitted,
                     destroys, lastEvent, ops, http, localStorage, ledger,
                     defaultInstance, apiClients, apiClientInstance,
                     singletonCalls>>

\* The page calls destroy() on the object i.
DestroyOn(i) ==
  /\ instances[i].S.listening
  /\ instances' = [instances EXCEPT ![i] = Instance_destroy(@)]
  /\ UNCHANGED <<notPage, defaultInstance, apiClients, apiClientInstance,
                 singletonCalls>>

InstanceDestroy == \E i \in 1..Len(instances) : DestroyOn(i)

\* ----------------------------------------------------------- specification
\* new SeedKey(options): options.timeout || 60000, the listener attached;
\* the instances modelled are built without a timeout option (0 here)
ConstructorTimeouts == {0}

Init ==
  /\ now = 1
  /\ timeout \in {OrElse(o, DEFAULT_TIMEOUT) : o \in ConstructorTimeouts}
  /\ pendingRequests = <<>>
  /\ timers = {}
  /\ listening = TRUE
  /\ calls = <<>>
  /\ emitted = {}
  /\ destroys = 0
  /\ lastEvent = Event("new", 0, NoId)
  /\ ops = <<>>
  /\ http = <<>>
  /\ localStorage = EmptyStore
  /\ ledger = NoLedger
  /\ instances = <<>>
  /\ defaultInstance = 0
  /\ apiClients = <<>>
  /\ apiClientInstance = 0
  /\ singletonCalls = NoSingletonCalls

Next == Send \/ Response \/ Timeout \/ Destroy

Spec == Init /\ [][Next]_vars

\* The backend operations of both clients, each called on its own.
HttpNext == Call \/ Reply

HttpSpec == Init /\ [][HttpNext]_vars

\* The page tears the instance down, once (a destroy() after another is the
\* case of Spec).
Teardown == destroys = 0 /\ Destroy

\* The public operations on one instance, with the custodian and the backend.
OpNext == Invoke \/ Answer \/ Timeout \/ Teardown \/ Continue \/ Fetched

OpSpec == Init /\ [][OpNext]_vars

\* Overlapping flows on one instance: the page calls register() and
\* authenticate() while others are under way. Date.now() reads the clock as
\* it stands (as in Send): requests that no timer expiry separates fall in
\* the same millisecond, and Math.random() gives any suffix.
FlowKinds == {kind \in OpKinds : kind \in {"register", "authenticate"}}

InvokeFlow ==
  \E kind \in FlowKinds, suffix \in RandomSuffixes :
    /\ Len(ops) < MaxFlows
    /\ Install(start(State, kind, now, suffix))
    /\ UNCHANGED <<now, timeout, destroys, outside>>

ContinueFlow ==
  \E o \in OpIds, suffix \in RandomSuffixes :
    /\ ops[o].call # 0
    /\ calls[ops[o].call].state # "pending"
    /\ Install(resume(State, o, Awaited(State, ops[o].call), now, suffix))
    /\ UNCHANGED <<now, timeout, destroys, outside>>

FetchedFlow ==
  \E o \in OpIds, suffix \in RandomSuffixes :
    /\ ops[o].state = "pending"
    /\ ops[o].call = 0
    /\ \E fetched \in FetchOutcomes(ops[o].steps[Len(ops[o].steps)].step) :
         /\ Install(resume(State, o, fetched, now, suffix))
         /\ UNCHANGED <<now, timeout, destroys, outside>>

OverlapNext == InvokeFlow \/ Answer \/ Timeout \/ ContinueFlow \/ FetchedFlow

OverlapSpec == Init /\ [][OverlapNext]_vars

\* --------------------------------------------- challenges of any expiry
\* ChallengeSpec: register() and authenticate() on one instance, with the
\* clock of OpSpec, against a custodian that answers or stays silent and a
\* backend whose challenge may have expired when it arrives.
Attempt ==
  \E kind \in FlowKinds, suffix \in OpSuffixes :
    /\ Len(ops) < MaxAttempts
    /\ Run(start(State, kind, now + 1, suffix))

\* The fetch of POST /challenge has come to an end with a challenge that has
\* expired.
FetchedExpired ==
  \E o \in OpIds, suffix \in OpSuffixes :
    /\ ops[o].state = "pending"
    /\ ops[o].call = 0
    /\ ops[o].pc = "requestChallenge"
    /\ \E b \in ExpiredChallengeBodies :
         Run(resume(State, o, [kind |-> "response", ok |-> TRUE, data |-> b],
                    now + 1, suffix))

ChallengeNext ==
  Attempt \/ Answer \/ Timeout \/ Continue \/ Fetched \/ FetchedExpired

ChallengeSpec == Init /\ [][ChallengeNext]_vars

\* --------------------------------------------------------- fair timers
\* LiveSpec: Spec with the timers of the event loop: a callback that
\* setTimeout has armed and clearTimeout has not cancelled is run in the end.
LiveSpec == Init /\ [][Next]_vars /\ WF_vars(Timeout)

\* ----------------------------------------------------------- fair flows
\* FlowLiveSpec: register, authenticate and auth, called one after the
\* other, against any custodian and backend, with destroy() at any point,
\* and with: the timers of the event loop (Timeout), the continuation of an
\* await whose promise has settled (Continue), and a backend request that
\* comes to an end, with a response or without (Fetched).
FlowLiveNext ==
  InvokeKeyed \/ Answer \/ Timeout \/ Teardown \/ Continue \/ Fetched

FlowLiveSpec ==
  /\ Init /\ [][FlowLiveNext]_vars
  /\ WF_vars(Timeout) /\ WF_vars(Continue) /\ WF_vars(Fetched)

\* ------------------------------------------------ flows and several keys
\* KeyedSpec: register, authenticate and auth with a custodian and a backend
\* that may answer each request of a flow with other values than they
\* answered the request before.
KeyedNext == InvokeKeyed \/ AnswerKeyed \/ Continue \/ FetchedKeyed

KeyedSpec == Init /\ [][KeyedNext]_vars

\* ------------------------------------------------ objects side by side
\* IsolationSpec: the page builds SeedKey objects of its own, which all
\* listen to the one response event of the document.
IsolationNext ==
  Construct \/ InstanceSend \/ Broadcast \/ InstanceTimeout \/ InstanceDestroy

IsolationSpec == Init /\ [][IsolationNext]_vars

\* ------------------------------------------------------- the singletons
\* SingletonSpec: the page calls getSeedKey, getApiClient and the resets in
\* any order, and public operations on the SeedKey objects it holds.
SingletonNext ==
  GetSeedKey \/ ResetSeedKey \/ GetApiClient \/ ResetApiClient \/ DefaultSend

SingletonSpec == Init /\ [][SingletonNext]_vars

\* ---------------------------------------------- the storage functions
\* StorageSpec: the page calls the functions of storage.ts in any order, at
\* the readings of the clock in Instants.
StorageNext ==
  \/ SaveTokens \/ ClearTokens \/ GetSession \/ IsTokenExpired \/ HasToken
  \/ SetOther \/ Elapse

StorageSpec == Init /\ [][StorageNext]_vars

\* ------------------------------------------------------------- properties
Destroyed == SeedKeyError(ERROR_CODES.TIMEOUT, "SDK destroyed", Undefined, Undefined)

HasEntry(c) == \E k \in DOMAIN pendingRequests : pendingRequests[k].call = c

HasTimer(c) == \E t \in timers : t.call = c

\* C1: exactly-once settlement. resolve/reject of a request fires at most
\* once; a settled request has fired exactly once, by one of response, timer
\* and destroy, and has left neither an entry nor an armed timer behind, so
\* that every later event for its requestId finds nothing to settle.
C1_ExactlyOnce ==
  \A c \in CallIds :
    /\ calls[c].fired <= 1
    /\ calls[c].state = "pending" <=> calls[c].fired = 0
    /\ calls[c].state # "pending" =>
         /\ calls[c].by \in {"response", "timeout", "destroy"}
         /\ ~HasEntry(c)
         /\ ~HasTimer(c)

\* a duplicate response for a request the first response settled was dropped
C1_Witness ==
  /\ lastEvent.op = "response"
  /\ lastEvent.outcome = "unknown"
  /\ \E c \in CallIds :
       /\ calls[c].requestId = lastEvent.requestId
       /\ calls[c].by = "response"
       /\ calls[c].fired = 1

\* C2: once the timer of a request has rejected it, the rejection is final: no
\* step changes its promise, its requestId is not in the table again, and a
\* response carrying its requestId settles nothing (the listener, when still
\* attached, finds the request unknown).
C2_LateResponseDropped ==
  [][\A c \in CallIds :
       calls[c].by = "timeout" =>
         /\ calls'[c] = calls[c]
         /\ calls[c].requestId \notin DOMAIN pendingRequests'
         /\ (lastEvent'.op = "response" /\ lastEvent'.requestId = calls[c].requestId)
              => /\ lastEvent'.outcome \in {"unknown", "undelivered"}
                 /\ calls' = calls
                 /\ pendingRequests' = pendingRequests
                 /\ timers' = timers]_vars

\* a response for a timed-out request arrived and was logged as unknown
C2_Witness ==
  /\ lastEvent.op = "response"
  /\ lastEvent.outcome = "unknown"
  /\ \E c \in CallIds :
       /\ calls[c].requestId = lastEvent.requestId
       /\ calls[c].by = "timeout"
       /\ calls[c].state = "rejected"

\* C3: a request that destroy() rejected never changes afterwards, and a
\* response carrying its requestId has no effect at all: the listener stays
\* detached, so the response is not even delivered.
C3_NoResolveAfterDestroy ==
  [][\A c \in CallIds :
       calls[c].by = "destroy" =>
         /\ calls'[c] = calls[c]
         /\ ~listening'
         /\ (lastEvent'.op = "response" /\ lastEvent'.requestId = calls[c].requestId)
              => /\ lastEvent'.outcome = "undelivered"
                 /\ calls' = calls
                 /\ pendingRequests' = pendingRequests
                 /\ timers' = timers]_vars

\* a success response for a destroyed request was dispatched after destroy
C3_Witness ==
  /\ lastEvent.op = "response"
  /\ lastEvent.outcome = "undelivered"
  /\ \E c \in CallIds :
       /\ calls[c].requestId = lastEvent.requestId
       /\ calls[c].by = "destroy"
       /\ calls[c].state = "rejected"

\* C4: a request sent after destroy() either is settled at once or can be
\* settled by a response: it is never pending while the listener is detached.
C4_SendAfterDestroy ==
  \A c \in CallIds :
    (calls[c].epoch > 0 /\ calls[c].state = "pending") => listening

\* C5: in every state after destroy() the in-flight table is empty.
C5_NoRegistrationAfterDestroy ==
  destroys > 0 => pendingRequests = <<>>

\* C6: a destroy() step rejects every request pending at that moment with the
\* 'SDK destroyed' error, leaves none of their timers armed, empties the table
\* and detaches the listener.
C6_DestroyRejectsAllPending ==
  [][Destroy =>
       /\ \A c \in CallIds :
            calls[c].state = "pending" =>
              /\ calls'[c].state = "rejected"
              /\ calls'[c].by = "destroy"
              /\ calls'[c].error = Destroyed
              /\ \A t \in timers' : t.call # c
       /\ pendingRequests' = <<>>
       /\ ~listening']_vars

C8_TimeoutIsNotFound ==
  /\ \A c \in CallIds :
       calls[c].by = "timeout" =>
         /\ calls[c].state = "rejected"
         /\ calls[c].error.code = ERROR_CODES.EXTENSION_NOT_FOUND
         /\ calls[c].error.code # ERROR_CODES.TIMEOUT
         /\ calls[c].error.hint = "Install SeedKey browser extension"
         /\ calls[c].error.name = "ExtensionNotFoundError"
  /\ lastEvent.op = "timeout" =>
       /\ calls[lastEvent.call].by = "timeout"
       /\ lastEvent.requestId \notin DOMAIN pendingRequests
       /\ ~HasTimer(lastEvent.call)

\* a probe (3000 ms override) and a request on the instance's default timeout
\* have both timed out
C8_Witness ==
  \E c, d \in CallIds :
    /\ calls[c].by = "timeout" /\ calls[c].action = "check_available"
    /\ calls[d].by = "timeout" /\ calls[d].action = "get_public_key"

\* C9: the requestIds of requests in flight at the same time are pairwise
\* distinct.
C9_UniqueLiveIds ==
  \A c, d \in CallIds :
    (c # d /\ calls[c].state = "pending" /\ calls[d].state = "pending")
      => calls[c].requestId # calls[d].requestId

\* C10: a response dispatched synchronously inside the emit of a request, on
\* an instance whose listener is attached, finds the entry of that request in
\* the table and settles it.
C10_RegisteredBeforeEmit ==
  (lastEvent.op = "send" /\ lastEvent.outcome \notin {"none", "undelivered"}) =>
    /\ lastEvent.outcome = "settled"
    /\ calls[lastEvent.call].state # "pending"
    /\ calls[lastEvent.call].by = "response"
    /\ calls[lastEvent.call].fired = 1
    /\ ~HasEntry(lastEvent.call)

\* a send whose response came back inside the dispatch and resolved it
C10_Witness ==
  /\ lastEvent.op = "send"
  /\ lastEvent.outcome = "settled"
  /\ calls[lastEvent.call].state = "resolved"
  /\ calls[lastEvent.call].result = SomeResult

\* ------------------------------------------- properties of the operations
\* the steps the operation op has issued within its flow (register or
\* authenticate), in the order of their issue
StepsIn(op, flow) ==
  SelectSeq(op.steps, LAMBDA st : st.flow = flow)

\* the authenticate attempt of an auth() has thrown a SeedKeyError whose code
\* is USER_NOT_FOUND
UserNotFound(op) ==
  /\ Len(op.thrown) >= 1
  /\ InstanceOfSeedKeyError(op.thrown[1])
  /\ op.thrown[1].code = ERROR_CODES.USER_NOT_FOUND

\* C11: auth() starts register exactly when its authenticate has thrown a
\* SeedKeyError of code USER_NOT_FOUND. When authenticate has thrown anything
\* else, auth() is rejected with that very error and has issued no step of
\* register; when authenticate has succeeded, none either.
C11_FallbackExactness ==
  \A o \in OpIds :
    ops[o].kind = "auth" =>
      /\ (StepsIn(ops[o], "register") # <<>>) <=> UserNotFound(ops[o])
      /\ (Len(ops[o].thrown) >= 1 /\ ~UserNotFound(ops[o])) =>
           /\ ops[o].state = "rejected"
           /\ ops[o].error = ops[o].thrown[1]
           /\ Len(ops[o].thrown) = 1
      /\ (ops[o].state = "resolved" /\ ops[o].thrown = <<>>) =>
           StepsIn(ops[o], "register") = <<>>

\* an auth() whose /verify the backend refused with USER_NOT_FOUND has gone
\* through register and resolved
C11_Witness ==
  \E o \in OpIds :
    /\ ops[o].kind = "auth"
    /\ ops[o].state = "resolved"
    /\ Len(StepsIn(ops[o], "authenticate")) = 4
    /\ Len(StepsIn(ops[o], "register")) = 4
    /\ ops[o].thrown = <<SeedKeyError(ERROR_CODES.USER_NOT_FOUND, "refused",
                                      Undefined, Undefined)>>

\* how many times the operation op has started the flow: each start issues
\* its get_public_key
Attempts(op, flow) ==
  Len(SelectSeq(op.steps, LAMBDA st : st.flow = flow /\ st.step = "get_public_key"))

\* C12: one auth() attempts authenticate once and register at most once,
\* register only after authenticate has thrown, with every step of
\* authenticate behind it; when that register throws, whatever the code,
\* auth() is rejected with the error thrown, and a settled auth() issues
\* nothing more.
C12_SingleFallback ==
  /\ [](\A o \in OpIds :
          ops[o].kind = "auth" =>
            /\ Attempts(ops[o], "authenticate") = 1
            /\ Attempts(ops[o], "register") <= 1
            /\ Len(ops[o].thrown) <= 2
            /\ ops[o].steps = StepsIn(ops[o], "authenticate") \o StepsIn(ops[o], "register")
            /\ Attempts(ops[o], "register") = 1 =>
                 /\ Len(ops[o].thrown) >= 1
                 /\ \A i \in 1..Len(ops[o].steps) :
                      ops[o].steps[i].flow = "authenticate" => ops[o].steps[i].state # "pending"
            /\ Len(ops[o].thrown) = 2 =>
                 /\ ops[o].state = "rejected"
                 /\ ops[o].error = ops[o].thrown[2])
  /\ [][\A o \in OpIds :
          (ops[o].kind = "auth" /\ ops[o].state # "pending") => ops'[o] = ops[o]]_vars

\* an auth() whose authenticate and whose register both ended in
\* USER_NOT_FOUND: it is rejected with the second error, after one attempt each
C12_Witness ==
  \E o \in OpIds :
    /\ ops[o].kind = "auth"
    /\ ops[o].state = "rejected"
    /\ Len(ops[o].thrown) = 2
    /\ ops[o].thrown[2].code = ERROR_CODES.USER_NOT_FOUND
    /\ ops[o].error = ops[o].thrown[2]
    /\ Attempts(ops[o], "register") = 1

\* C13: what register() resolves with has action 'register' and what
\* authenticate() resolves with has action 'login', whatever action the
\* backend's answer carries; auth() resolves with 'login' when its
\* authenticate succeeded and with 'register' when its fallback did.
C13_ActionTagging ==
  \A o \in OpIds :
    (IsFlow(ops[o].kind) /\ ops[o].state = "resolved") =>
      /\ ops[o].result.type = "AuthResult"
      /\ ops[o].kind = "register" => ops[o].result.action = "register"
      /\ ops[o].kind = "authenticate" => ops[o].result.action = "login"
      /\ ops[o].kind = "auth" =>
           ops[o].result.action =
             IF ops[o].thrown = <<>> THEN "login" ELSE "register"

\* an authenticate() has resolved with 'login' although the backend answered
\* /verify with action 'register'
C13_Witness ==
  \E o \in OpIds :
    /\ ops[o].kind = "authenticate"
    /\ ops[o].state = "resolved"
    /\ ops[o].result.action = "login"
    /\ ops[o].result.user = "user1"
    /\ ops[o].received = "register"

\* the steps of a flow, in the order the source issues them
ExpectedSteps(flow) ==
  <<"get_public_key", "/api/v1/seedkey/challenge", "sign_challenge", Flows[flow].path>>

\* the error the flow of the operation op has thrown to its caller: the
\* register of an auth() is the second to throw in it
ThrownBy(op, flow) ==
  IF op.kind = "auth" /\ flow = "register" THEN <<op.thrown[2]>> ELSE <<op.thrown[1]>>

\* C14: register() and authenticate() issue get_public_key, POST /challenge
\* with the key returned and their action, sign_challenge with the challenge
\* returned, POST /register resp. /verify with key, challenge and signature,
\* in this order and each only after the one before has succeeded. A step
\* that fails is the last of its flow, and the flow throws the error of that
\* step: for a request to the custodian the error its promise was rejected
\* with.
C14_FlowSequencing ==
  \A o \in OpIds : \A flow \in {"register", "authenticate"} :
    IsFlow(ops[o].kind) =>
      LET st == StepsIn(ops[o], flow)
      IN /\ Len(st) <= 4
         /\ \A k \in 1..Len(st) :
              /\ st[k].step = ExpectedSteps(flow)[k]
              /\ k < Len(st) => st[k].state = "succeeded"
              /\ (st[k].call # 0) <=> (k \in {1, 3})
              /\ st[k].state = "failed" =>
                   /\ k = Len(st)
                   /\ Len(ops[o].thrown) >= (IF ops[o].kind = "auth" /\ flow = "register" THEN 2 ELSE 1)
                   /\ ThrownBy(ops[o], flow) = <<st[k].error>>
                   /\ st[k].call # 0 =>
                        /\ calls[st[k].call].state = "rejected"
                        /\ calls[st[k].call].error = st[k].error
                   /\ (ops[o].kind # "auth" \/ flow = "register") =>
                        /\ ops[o].state = "rejected"
                        /\ ops[o].error = st[k].error
         /\ Len(st) >= 2 =>
              /\ st[1].returned.publicKey # Undefined
              /\ st[2].payload =
                   [NoPayload EXCEPT !.publicKey = st[1].returned.publicKey,
                                     !.action = Flows[flow].action]
         /\ Len(st) >= 3 =>
              /\ st[2].returned.challenge # Undefined
              /\ st[3].payload = [NoPayload EXCEPT !.challenge = st[2].returned.challenge]
              /\ calls[st[3].call].action = "sign_challenge"
         /\ Len(st) >= 1 => calls[st[1].call].action = "get_public_key"
         /\ Len(st) = 4 =>
              /\ st[3].returned.signature # Undefined
              /\ st[4].payload =
                   [NoPayload EXCEPT
                      !.publicKey = st[1].returned.publicKey,
                      !.challenge = st[2].returned.challenge,
                      !.signature = st[3].returned.signature,
                      !.challengeId = IF flow = "authenticate"
                                        THEN st[2].returned.challengeId ELSE Undefined]

\* a register() whose third step the user refused: it has issued three steps,
\* no POST /register, and is rejected with USER_REJECTED
C14_Witness ==
  \E o \in OpIds :
    /\ ops[o].kind = "register"
    /\ Len(ops[o].steps) = 3
    /\ ops[o].steps[3].state = "failed"
    /\ ops[o].steps[3].error.code = ERROR_CODES.USER_REJECTED
    /\ ops[o].state = "rejected"
    /\ ops[o].error.code = ERROR_CODES.USER_REJECTED

\* C15: register(), authenticate() and auth() end in one of two ways, for
\* good: resolved with an AuthResult (user and action, no error) and only when
\* the four steps of the flow that produced it have succeeded, or rejected
\* with an error and no value. While they run, and when they are rejected,
\* nothing is surfaced.
C15_FlowAtomicity ==
  /\ [](\A o \in OpIds :
          IsFlow(ops[o].kind) =>
            /\ ops[o].state \in {"pending", "resolved", "rejected"}
            /\ ops[o].state = "pending" =>
                 ops[o].result = NoValue /\ ops[o].error = NoError
            /\ ops[o].state = "rejected" =>
                 ops[o].result = NoValue /\ ops[o].error # NoError
            /\ ops[o].state = "resolved" =>
                 /\ ops[o].error = NoError
                 /\ ops[o].result.type = "AuthResult"
                 /\ ops[o].result.user # Undefined
                 /\ ops[o].result.action = Flows[ops[o].flow].tag
                 /\ Len(StepsIn(ops[o], ops[o].flow)) = 4
                 /\ \A k \in 1..4 :
                      StepsIn(ops[o], ops[o].flow)[k].state = "succeeded")
  /\ [][\A o \in OpIds :
          (IsFlow(ops[o].kind) /\ ops[o].state # "pending") => ops'[o] = ops[o]]_vars

\* an authenticate() rejected at its last step, three steps having succeeded:
\* it shows the error and nothing of the key, challenge and signature it holds
C15_Witness ==
  \E o \in OpIds :
    /\ ops[o].kind = "authenticate"
    /\ ops[o].state = "rejected"
    /\ ops[o].result = NoValue
    /\ Len(ops[o].steps) = 4
    /\ ops[o].steps[4].state = "failed"
    /\ ops[o].locals.signature = "sig1"

\* the request of the probe the operation op sent as its step k has been
\* resolved with the property of the probe true
ProbedTrue(op, k, field) ==
  /\ Len(op.steps) >= k
  /\ calls[op.steps[k].call].state = "resolved"
  /\ calls[op.steps[k].call].result = Object(field, "true")

\* C16: isAvailable() and isInitialized() are never rejected. They resolve
\* with a boolean, true exactly when their request was resolved with
\* available resp. initialized true: false after a timeout, an error
\* response, destroy, and a result without that property or with another
\* value of it.
C16_ProbesNeverReject ==
  \A o \in OpIds :
    ops[o].kind \in {"isAvailable", "isInitialized"} =>
      /\ ops[o].state # "rejected"
      /\ Len(ops[o].steps) = 1
      /\ ops[o].steps[1].step =
           (IF ops[o].kind = "isAvailable" THEN "check_available" ELSE "is_initialized")
      /\ ops[o].state = "resolved" =>
           /\ ops[o].result.type = "boolean"
           /\ ops[o].result.bool <=>
                ProbedTrue(ops[o], 1, IF ops[o].kind = "isAvailable"
                                        THEN "available" ELSE "initialized")

\* an isAvailable() that destroy() caught pending has resolved with false
C16_Witness ==
  \E o \in OpIds :
    /\ ops[o].kind = "isAvailable"
    /\ ops[o].state = "resolved"
    /\ ops[o].result = Boolean(FALSE)
    /\ calls[ops[o].steps[1].call].by = "destroy"

\* C17: checkExtension() sends is_initialized only after check_available has
\* come back true. It is rejected with ExtensionNotFoundError (code
\* EXTENSION_NOT_FOUND, the download URL in it) when the availability is not
\* true, without a second request; with ExtensionNotConfiguredError when the
\* availability is true and the initialization is not; it resolves with
\* {installed: true, initialized: true} only when both are true.
C17_CheckExtension ==
  \A o \in OpIds :
    ops[o].kind = "checkExtension" =>
      /\ Len(ops[o].steps) <= 2
      /\ ops[o].steps[1].step = "check_available"
      /\ Len(ops[o].steps) = 2 =>
           /\ ops[o].steps[2].step = "is_initialized"
           /\ ProbedTrue(ops[o], 1, "available")
      /\ (ops[o].state # "pending" /\ ~ProbedTrue(ops[o], 1, "available")) =>
           /\ ops[o].state = "rejected"
           /\ ops[o].error.name = "ExtensionNotFoundError"
           /\ ops[o].error.code = ERROR_CODES.EXTENSION_NOT_FOUND
           /\ ops[o].error.downloadUrl = EXTENSION_DOWNLOAD_URL
           /\ Len(ops[o].steps) = 1
      /\ (ops[o].state # "pending" /\ ProbedTrue(ops[o], 1, "available")
            /\ ~ProbedTrue(ops[o], 2, "initialized")) =>
           /\ ops[o].state = "rejected"
           /\ ops[o].error.name = "ExtensionNotConfiguredError"
           /\ ops[o].error.code = ERROR_CODES.EXTENSION_NOT_CONFIGURED
      /\ ops[o].state = "resolved" =>
           /\ ops[o].result = ExtensionStatus(TRUE, TRUE, Undefined)
           /\ ProbedTrue(ops[o], 1, "available")
           /\ ProbedTrue(ops[o], 2, "initialized")

\* a checkExtension() whose custodian is there but has no identity: two
\* requests, rejected as not configured
C17_Witness ==
  \E o \in OpIds :
    /\ ops[o].kind = "checkExtension"
    /\ ops[o].state = "rejected"
    /\ ops[o].error = ExtensionNotConfiguredError
    /\ Len(ops[o].steps) = 2
    /\ calls[ops[o].steps[2].call].result = Object("initialized", "false")

\* C18: getExtensionStatus() is never rejected; in what it resolves with,
\* initialized implies installed, and the downloadUrl is there exactly when
\* installed is false; no is_initialized request is sent unless the
\* availability has come back true.
C18_ExtensionStatus ==
  \A o \in OpIds :
    ops[o].kind = "getExtensionStatus" =>
      /\ ops[o].state # "rejected"
      /\ Len(ops[o].steps) <= 2
      /\ Len(ops[o].steps) = 2 =>
           /\ ops[o].steps[2].step = "is_initialized"
           /\ ProbedTrue(ops[o], 1, "available")
      /\ ops[o].state = "resolved" =>
           /\ ops[o].result.type = "ExtensionStatus"
           /\ ops[o].result.initialized => ops[o].result.installed
           /\ (ops[o].result.downloadUrl # Undefined) <=> ~ops[o].result.installed
           /\ ops[o].result.installed <=> ProbedTrue(ops[o], 1, "available")
           /\ ops[o].result.initialized <=> ProbedTrue(ops[o], 2, "initialized")
           /\ ~ops[o].result.installed => Len(ops[o].steps) = 1

\* a getExtensionStatus() whose availability probe timed out: one request,
\* {installed: false, initialized: false, downloadUrl}
C18_Witness ==
  \E o \in OpIds :
    /\ ops[o].kind = "getExtensionStatus"
    /\ ops[o].state = "resolved"
    /\ ops[o].result = ExtensionStatus(FALSE, FALSE, EXTENSION_DOWNLOAD_URL)
    /\ Len(ops[o].steps) = 1
    /\ calls[ops[o].steps[1].call].by = "timeout"

\* every response event the model dispatches
AllResponses == UNION {ResponsesFor(requestId) : requestId \in KnownIds}

\* the listener has nothing to do with the message data: it is not of type
\* SEEDKEY_RESPONSE (or has no detail), or its requestId has no entry
NotForUs(data) ==
  \/ ~data.detail
  \/ data.type # "SEEDKEY_RESPONSE"
  \/ data.requestId \notin DOMAIN pendingRequests

\* C19: a message that is not of type SEEDKEY_RESPONSE, or whose requestId has
\* no entry in the table (foreign, unknown, already settled), settles no
\* request and leaves the table and every timer as they were.
C19_IgnoresForeign ==
  [][(/\ lastEvent'.op = "response"
      /\ \E data \in AllResponses :
           /\ lastEvent'.requestId \in {data.requestId, NoId}
           /\ NotForUs(data)
           /\ Deliver(data)) =>
        /\ calls' = calls
        /\ pendingRequests' = pendingRequests
        /\ timers' = timers
        /\ listening' = listening]_vars

\* with a request in flight, a message of another type that carries the id
\* of that very request has been ignored
C19_Witness ==
  /\ lastEvent.op = "response"
  /\ lastEvent.outcome = "ignored"
  /\ listening
  /\ \E c \in CallIds :
       /\ calls[c].state = "pending"
       /\ HasEntry(c) /\ HasTimer(c)
       /\ calls[c].epoch = 0

\* C20: a response of type SEEDKEY_RESPONSE that the listener receives
\* settles every request in flight that carries its requestId, and no other:
\* resolved with the result of the response when success is true, rejected
\* with SeedKeyError(code, message) of its error when not, SERVER_ERROR and
\* 'Extension error' standing in for what the error lacks.
C20_ResponseRouting ==
  [][\A data \in AllResponses :
       (/\ lastEvent'.op = "response"
        /\ listening /\ data.detail /\ data.type = "SEEDKEY_RESPONSE"
        /\ Deliver(data)) =>
         \A c \in CallIds :
           IF calls[c].state = "pending" /\ calls[c].requestId = data.requestId
             THEN /\ calls'[c].by = "response"
                  /\ data.success =>
                       /\ calls'[c].state = "resolved"
                       /\ calls'[c].result = data.result
                  /\ ~data.success =>
                       /\ calls'[c].state = "rejected"
                       /\ calls'[c].error =
                            SeedKeyError(
                              IF data.error.present THEN data.error.code
                                ELSE ERROR_CODES.SERVER_ERROR,
                              IF data.error.present THEN data.error.message
                                ELSE "Extension error",
                              Undefined, Undefined)
             ELSE calls'[c] = calls[c]]_vars

\* C21: a step that settles a request by its response or by its own timer
\* leaves every entry of the table that is not the entry of that request as
\* it was, with the timer of its call armed and its caller pending as before.
C21_SettlingLeavesOthers ==
  [][\A c \in 1..Len(calls') :
       (/\ c \in CallIds => calls[c].state = "pending"
        /\ calls'[c].state # "pending"
        /\ calls'[c].by \in {"response", "timeout"}) =>
         \A k \in DOMAIN pendingRequests :
           pendingRequests[k].call # c =>
             /\ k \in DOMAIN pendingRequests'
             /\ pendingRequests'[k] = pendingRequests[k]
             /\ \A t \in timers : t.call = pendingRequests[k].call => t \in timers'
             /\ calls'[pendingRequests[k].call] = calls[pendingRequests[k].call]
             /\ calls'[pendingRequests[k].call].state = "pending"]_vars

\* the request the operation op awaits, if it is in flight
InFlight(op) == op.call # 0 /\ calls[op.call].state = "pending"

\* C22: flows that overlap on one instance are independent. Each submits to
\* the backend the key and the signature its own requests were resolved with
\* and the challenge and challengeId of its own /challenge reply; each
\* request in flight of a flow has its own entry in the table; and a response
\* to a request of one flow, the expiry of a timer of one flow and a
\* continuation of one flow leave the other flows, their requests and their
\* entries as they were.
C22_OverlappingFlows ==
  /\ [](\A o \in OpIds : \A flow \in {"register", "authenticate"} :
          LET st == StepsIn(ops[o], flow)
          IN /\ Len(st) >= 2 =>
                  st[2].payload.publicKey = Get(calls[st[1].call].result, "publicKey")
             /\ Len(st) >= 3 =>
                  st[3].payload.challenge = st[2].returned.challenge
             /\ Len(st) >= 4 =>
                  /\ st[4].payload.publicKey = Get(calls[st[1].call].result, "publicKey")
                  /\ st[4].payload.challenge = st[2].returned.challenge
                  /\ st[4].payload.challengeId \in {st[2].returned.challengeId, Undefined}
                  /\ st[4].payload.signature = Get(calls[st[3].call].result, "signature")
             /\ InFlight(ops[o]) =>
                  /\ calls[ops[o].call].requestId \in DOMAIN pendingRequests
                  /\ pendingRequests[calls[ops[o].call].requestId].call = ops[o].call)
  /\ [][\A o, p \in OpIds :
          (/\ o # p
           /\ \/ /\ InFlight(ops[o])
                 /\ lastEvent'.op = "response"
                 /\ \E data \in AnswersFor(calls[ops[o].call]) : Deliver(data)
              \/ /\ InFlight(ops[o])
                 /\ lastEvent'.op = "timeout"
                 /\ \E t \in timers :
                      t.call = ops[o].call /\ Install(timeoutCallback(State, t))
              \/ ops'[o] # ops[o]) =>
            /\ ops'[p] = ops[p]
            /\ ops[p].call # 0 =>
                 /\ calls'[ops[p].call] = calls[ops[p].call]
                 /\ HasEntry(ops[p].call) =>
                      pendingRequests'[calls[ops[p].call].requestId]
                        = pendingRequests[calls[ops[p].call].requestId]]_vars

\* --------------------------------- properties of the backend operations
\* a SeedKeyError that carries a code
Structured(error) ==
  InstanceOfSeedKeyError(error) /\ error.code \notin {Undefined, ""}

\* C23: every error a backend operation of SeedKey or of ApiClient, and
\* every error a public operation of SeedKey (the flows, checkExtension) is
\* rejected with, is a SeedKeyError that carries a code: whatever the
\* custodian answers and whatever the backend replies, a success that lacks
\* an expected field and a body that cannot be decoded included.
C23_UniformErrorShape ==
  /\ \A i \in 1..Len(http) :
       http[i].state = "rejected" => Structured(http[i].error)
  /\ \A o \in OpIds :
       ops[o].state = "rejected" => Structured(ops[o].error)

\* ------------------------------------------------------ C24 error defaults
\* A backend operation whose fetch came to a non-success response with a
\* structured body (a JSON object: { error?, message?, hint? })
FailedStructured(request) ==
  /\ request.state # "pending"
  /\ request.fetched.kind = "response"
  /\ ~request.fetched.ok
  /\ request.fetched.data.defined

\* The message each operation names for a body that has none: httpGet and
\* httpPost of SeedKey have one for all their callers, the operations of
\* ApiClient one each.
DefaultMessage(request) ==
  IF request.client = "SeedKey" THEN "Server error"
  ELSE IF request.op = "getUser" THEN "Failed to get user"
  ELSE IF request.op = "logout" THEN "Logout failed"
  ELSE "Token refresh failed"

\* the error of request has the code and the message of the body, and code
\* and message where the body has none
TranslatedWith(request, code, message) ==
  /\ request.state = "rejected"
  /\ InstanceOfSeedKeyError(request.error)
  /\ request.error.code =
       IF request.fetched.data.error # Undefined
         THEN request.fetched.data.error ELSE code
  /\ request.error.message =
       IF request.fetched.data.message # Undefined
         THEN request.fetched.data.message ELSE message

\* C24 as stated: every backend operation turns a non-success response into
\* a SeedKeyError with the code of the body, or SERVER_ERROR when the body
\* has none, and the message of the body, or the default message of the
\* operation. (Violated: ApiClient.refreshToken falls back to INVALID_TOKEN.)
C24_ServerErrorDefault ==
  \A i \in 1..Len(http) :
    FailedStructured(http[i]) =>
      TranslatedWith(http[i], ERROR_CODES.SERVER_ERROR, DefaultMessage(http[i]))

\* the code the amended claim names for a body that has none
DefaultCode(request) ==
  IF request.client = "ApiClient" /\ request.op = "refreshToken"
    THEN ERROR_CODES.INVALID_TOKEN
    ELSE ERROR_CODES.SERVER_ERROR

\* C24 (amended): every backend operation turns a non-success response into
\* a SeedKeyError with the code of the body, or, when the body has none,
\* SERVER_ERROR (INVALID_TOKEN for ApiClient.refreshToken), and the message
\* of the body, or the default message of the operation.
C24_ErrorDefaults ==
  \A i \in 1..Len(http) :
    FailedStructured(http[i]) =>
      TranslatedWith(http[i], DefaultCode(http[i]), DefaultMessage(http[i]))

\* ApiClient.getUser has met a non-success response with the body { } and
\* has rejected with SERVER_ERROR, 'Failed to get user'
C24_Witness ==
  \E i \in 1..Len(http) :
    /\ http[i].client = "ApiClient" /\ http[i].op = "getUser"
    /\ FailedStructured(http[i])
    /\ http[i].fetched.data = EmptyBody
    /\ http[i].state = "rejected"
    /\ http[i].error.code = ERROR_CODES.SERVER_ERROR
    /\ http[i].error.message = "Failed to get user"

\* --------------------------------------- C25 refreshToken: INVALID_TOKEN
\* C25: ApiClient.refreshToken, on a non-success response, rejects with a
\* SeedKeyError that has the code of the body, and INVALID_TOKEN when the
\* body has no code.
C25_RefreshDefaultsToInvalidToken ==
  \A i \in 1..Len(http) :
    (/\ http[i].client = "ApiClient" /\ http[i].op = "refreshToken"
     /\ FailedStructured(http[i])) =>
      /\ http[i].state = "rejected"
      /\ InstanceOfSeedKeyError(http[i].error)
      /\ http[i].fetched.data.error = Undefined =>
            http[i].error.code = ERROR_CODES.INVALID_TOKEN
      /\ http[i].fetched.data.error # Undefined =>
            http[i].error.code = http[i].fetched.data.error

\* ApiClient.refreshToken has met a non-success response whose body has a
\* message and no code, and has rejected with INVALID_TOKEN
C25_Witness ==
  \E i \in 1..Len(http) :
    /\ http[i].client = "ApiClient" /\ http[i].op = "refreshToken"
    /\ FailedStructured(http[i])
    /\ http[i].fetched.data.error = Undefined
    /\ http[i].fetched.data.message = "Token expired"
    /\ http[i].state = "rejected"
    /\ http[i].error.code = ERROR_CODES.INVALID_TOKEN

\* ------------------------------------------------- C26 hint preservation
\* C26: every backend operation of both clients, on a non-success response,
\* throws a SeedKeyError with the hint of the body, and with none when the
\* body has none.
C26_HintPreserved ==
  \A i \in 1..Len(http) :
    FailedStructured(http[i]) =>
      /\ http[i].state = "rejected"
      /\ InstanceOfSeedKeyError(http[i].error)
      /\ http[i].error.hint = http[i].fetched.data.hint

\* ------------------------------------------- C27 absent field of a success
\* C27: getUser on a 2xx reply with the body { } resolves to undefined, for
\* ApiClient.getUser and for SeedKey.getUser alike.
C27_AbsentUserResolves ==
  \A i \in 1..Len(http) :
    (/\ http[i].op = "getUser"
     /\ http[i].state # "pending"
     /\ http[i].fetched.kind = "response" /\ http[i].fetched.ok
     /\ http[i].fetched.data = EmptyBody) =>
      /\ http[i].state = "resolved"
      /\ http[i].result = Void

\* ------------------------------------------------ C28 challenge pass-through
\* C28: register and authenticate hand the challenge the backend has sent,
\* whatever its expiresAt, unchanged to the custodian for signing, and, once
\* it is signed, unchanged to /register resp. /verify (authenticate with the
\* challengeId the backend has sent): a challenge that has expired is signed
\* and submitted like any other.
C28_ChallengePassThrough ==
  \A o \in OpIds : \A flow \in {"register", "authenticate"} :
    IsFlow(ops[o].kind) =>
      LET st == StepsIn(ops[o], flow)
      IN /\ (/\ Len(st) >= 2
             /\ st[2].reply.defined
             /\ st[2].reply.challenge # Undefined) =>
               /\ st[2].state = "succeeded"
               /\ Len(st) >= 3
               /\ st[3].step = "sign_challenge"
               /\ st[3].payload.challenge = st[2].reply.challenge
         /\ (/\ Len(st) >= 3
             /\ calls[st[3].call].state = "resolved"
             /\ Get(calls[st[3].call].result, "signature") # Undefined
             /\ st[3].state # "pending") =>
               /\ Len(st) = 4
               /\ st[4].step = Flows[flow].path
               /\ st[4].payload.challenge = st[2].reply.challenge
               /\ flow = "authenticate" =>
                    st[4].payload.challengeId = st[2].reply.challengeId

\* an authenticate() whose challenge had expired when the backend sent it:
\* the custodian has signed it and it has been submitted to /verify with its
\* challengeId
C28_Witness ==
  \E o \in OpIds :
    /\ ops[o].kind = "authenticate"
    /\ Len(ops[o].steps) = 4
    /\ Challenge_expiresAt(ops[o].steps[2].reply.challenge) < now
    /\ ops[o].steps[3].payload.challenge = "challenge0"
    /\ ops[o].steps[4].step = "/api/v1/seedkey/verify"
    /\ ops[o].steps[4].payload.challenge = "challenge0"
    /\ ops[o].steps[4].payload.challengeId = "cid0"

\* -------------------------------------------------------- C29 expiry buffer
\* the expiry in force: what the last saveTokens has computed from its
\* reading of the clock, none before any save and after clearTokens
ExpiryStored == ledger.saved.fn = "saveTokens"

ExpiryInForce == ledger.saved.at + ledger.saved.expiresIn * 1000

\* C29: isTokenExpired() returns true when no expiry is stored and otherwise
\* true exactly when now > expiresAt - 300000 ms, now being the reading of
\* the clock at that call and expiresAt the expiry stored at that call.
C29_ExpiryBuffer ==
  ledger.returned.fn = "isTokenExpired" =>
    ledger.returned.boolean =
      (~ExpiryStored \/ ledger.returned.at > ExpiryInForce - 300000)

\* isTokenExpired() called, some time after the save, 5 min + 1 ms before the
\* expiry stored, has returned false
C29_Witness ==
  /\ ledger.returned.fn = "isTokenExpired"
  /\ ExpiryStored
  /\ ledger.returned.at > ledger.saved.at
  /\ ledger.returned.at + 5 * 60 * 1000 + 1 = ExpiryInForce
  /\ ledger.returned.boolean = FALSE

\* ---------------------------------------------------- C30 session round trip
\* C30: over any sequence of saveTokens and clearTokens, getSession() after
\* saveTokens({a, r, expiresIn}, u) yields a, r, u and isExpired as of the
\* expiry "reading of the save + expiresIn * 1000", which is also the expiry
\* stored (false at once for expiresIn 3600); after clearTokens() it yields
\* {null, null, null, true}; hasToken() is true exactly when a non-empty
\* access token is stored.
C30_SessionRoundTrip ==
  /\ (/\ ledger.returned.fn = "getSession"
      /\ ledger.saved.fn = "saveTokens"
      /\ Truthy(ledger.saved.userId)) =>
        /\ ledger.returned.session.accessToken = ledger.saved.accessToken
        /\ ledger.returned.session.refreshToken = ledger.saved.refreshToken
        /\ ledger.returned.session.userId = ledger.saved.userId
        /\ ledger.returned.session.isExpired =
             (ledger.returned.at > ExpiryInForce - 300000)
        /\ (ledger.saved.expiresIn = 3600 /\ ledger.returned.at = ledger.saved.at) =>
             ledger.returned.session.isExpired = FALSE
  /\ ledger.saved.fn = "saveTokens" =>
        getItem(localStorage, STORAGE_KEYS.EXPIRES_AT) = toString(ExpiryInForce)
  /\ (ledger.returned.fn = "getSession" /\ ledger.saved.fn = "clearTokens") =>
        ledger.returned.session = NoSession
  /\ ledger.returned.fn = "hasToken" =>
        ledger.returned.boolean =
          (/\ STORAGE_KEYS.ACCESS_TOKEN \in DOMAIN localStorage
           /\ localStorage[STORAGE_KEYS.ACCESS_TOKEN] # <<>>)

\* getSession() right after saveTokens({a, r, 3600}, u) has returned
\* {a, r, u, false}, the expiry stored being "3600001"
C30_Witness ==
  /\ ledger.returned.fn = "getSession"
  /\ ledger.saved.fn = "saveTokens"
  /\ ledger.saved.expiresIn = 3600
  /\ ledger.saved.at = 1
  /\ ledger.returned.at = ledger.saved.at
  /\ ledger.returned.session =
       [accessToken |-> String(<<"a">>), refreshToken |-> String(<<"r">>),
        userId |-> String(<<"u">>), isExpired |-> FALSE]
  /\ localStorage[STORAGE_KEYS.EXPIRES_AT] = <<"3", "6", "0", "0", "0", "0", "1">>

\* ------------------------------------------------- C31 clearTokens: frame
ManagedKeys ==
  {STORAGE_KEYS.ACCESS_TOKEN, STORAGE_KEYS.REFRESH_TOKEN,
   STORAGE_KEYS.EXPIRES_AT, STORAGE_KEYS.USER_ID}

\* C31: clearTokens() removes the four managed keys and no other: every
\* other key the store held at the call is still there with its value (until
\* its owner writes it again).
C31_ClearRemovesManagedKeys ==
  [][ClearTokens =>
       /\ DOMAIN localStorage' = DOMAIN localStorage \ ManagedKeys
       /\ \A k \in DOMAIN localStorage' : localStorage'[k] = localStorage[k]]_vars

\* clearTokens() has found the four managed keys and a key of the page in the
\* store, and has left that key alone
C31_Witness ==
  /\ ledger.saved.fn = "clearTokens"
  /\ ManagedKeys \subseteq DOMAIN ledger.saved.before
  /\ "other_key" \in DOMAIN ledger.saved.before
  /\ DOMAIN localStorage = {"other_key"}
  /\ localStorage["other_key"] = ledger.saved.before["other_key"]

\* --------------------------------------- C32 the user id, only when given
\* C32: saveTokens called without a userId, or with the empty string, does
\* not write the user-id key: the key is in the store exactly if it was
\* before the call, with the value it had, while the tokens and the expiry
\* are those of the call.
C32_UserIdOnlyWhenGiven ==
  (ledger.saved.fn = "saveTokens" /\ ~Truthy(ledger.saved.userId)) =>
    /\ (STORAGE_KEYS.USER_ID \in DOMAIN localStorage)
         <=> (STORAGE_KEYS.USER_ID \in DOMAIN ledger.saved.before)
    /\ STORAGE_KEYS.USER_ID \in DOMAIN localStorage =>
         localStorage[STORAGE_KEYS.USER_ID] = ledger.saved.before[STORAGE_KEYS.USER_ID]
    /\ getAccessToken(localStorage) = ledger.saved.accessToken
    /\ getRefreshToken(localStorage) = ledger.saved.refreshToken
    /\ getItem(localStorage, STORAGE_KEYS.EXPIRES_AT) = toString(ExpiryInForce)

\* a later saveTokens without a userId has replaced tokens and expiry of an
\* earlier save and has left the user id "u" of that save in the store
C32_Witness ==
  /\ ledger.saved.fn = "saveTokens"
  /\ ledger.saved.userId = Null
  /\ ledger.saved.at > 1
  /\ ManagedKeys \subseteq DOMAIN ledger.saved.before
  /\ ledger.saved.before[STORAGE_KEYS.USER_ID] = <<"u">>
  /\ localStorage[STORAGE_KEYS.USER_ID] = <<"u">>
  /\ localStorage[STORAGE_KEYS.ACCESS_TOKEN] = <<"b">>

\* ------------------------------------------------------ C33 singleton reuse
\* C33: between resets, getSeedKey returns the object that the first call
\* with options has built, with the options of that call, whatever the
\* options of the later calls; while no call has given options it throws and
\* builds nothing. Likewise getApiClient with its baseUrl.
C33_SingletonReuse ==
  /\ singletonCalls.last.fn = "getSeedKey" =>
       IF singletonCalls.seedKey.given
         THEN /\ ~singletonCalls.last.threw
              /\ singletonCalls.last.instance = singletonCalls.seedKey.instance
              /\ defaultInstance = singletonCalls.seedKey.instance
              /\ instances[singletonCalls.last.instance].backendUrl =
                   singletonCalls.seedKey.url
         ELSE /\ singletonCalls.last.threw
              /\ Len(instances) = singletonCalls.last.built
              /\ defaultInstance = 0
  /\ singletonCalls.last.fn = "getApiClient" =>
       IF singletonCalls.apiClient.given
         THEN /\ ~singletonCalls.last.threw
              /\ singletonCalls.last.instance = singletonCalls.apiClient.instance
              /\ apiClientInstance = singletonCalls.apiClient.instance
              /\ apiClients[singletonCalls.last.instance] =
                   singletonCalls.apiClient.url
         ELSE /\ singletonCalls.last.threw
              /\ Len(apiClients) = singletonCalls.last.built
              /\ apiClientInstance = 0

\* getSeedKey({ backendUrl: 'https://other.com' }) has returned the object
\* built earlier for 'https://api.example.com', and has built none
C33_Witness ==
  /\ singletonCalls.last.fn = "getSeedKey"
  /\ singletonCalls.last.url = "https://other.com"
  /\ ~singletonCalls.last.threw
  /\ singletonCalls.last.built = 1
  /\ Len(instances) = 1
  /\ instances[singletonCalls.last.instance].backendUrl = "https://api.example.com"

\* ------------------------------------------------------ C34 singleton reset
\* C34: resetSeedKey() with a default object destroys it (every request
\* pending on it is rejected, its table and timers are empty, its listener is
\* detached), leaves the other objects alone and clears the variable, so that
\* getSeedKey() then throws and getSeedKey(options) builds an object that is
\* none of the earlier ones, with an empty table; resetSeedKey() and
\* resetApiClient() without an object change nothing and do not throw.
C34_SingletonReset ==
  [][/\ ResetSeedKey =>
          /\ defaultInstance' = 0
          /\ Len(instances') = Len(instances)
          /\ \A i \in 1..Len(instances) :
               IF i = defaultInstance
                 THEN /\ ~instances'[i].S.listening
                      /\ instances'[i].S.pendingRequests = <<>>
                      /\ instances'[i].S.timers = {}
                      /\ \A c \in 1..Len(instances[i].S.calls) :
                           IF instances[i].S.calls[c].state = "pending"
                             THEN /\ instances'[i].S.calls[c].state = "rejected"
                                  /\ instances'[i].S.calls[c].by = "destroy"
                             ELSE instances'[i].S.calls[c] = instances[i].S.calls[c]
                 ELSE instances'[i] = instances[i]
          /\ getSeedKey(Page', NoOptions).threw
          /\ getSeedKey(Page', NoOptions).P = Page'
          /\ \A options \in SeedKeyOptions \ {NoOptions} :
               LET g == getSeedKey(Page', options)
               IN /\ ~g.threw
                  /\ g.instance \notin 1..Len(instances)
                  /\ g.P.instances[g.instance].S.pendingRequests = <<>>
                  /\ g.P.instances[g.instance].S.listening
                  /\ g.P.instances[g.instance].backendUrl = options.backendUrl
                  /\ \A i \in 1..Len(instances) :
                       g.P.instances[i] = instances'[i]
     /\ ResetApiClient =>
          /\ apiClientInstance' = 0
          /\ apiClients' = apiClients
          /\ getApiClient(Page', Undefined).threw
     /\ (ResetSeedKey \/ ResetApiClient) /\ defaultInstance = 0 =>
          instances' = instances]_vars

\* ------------------------------------------- C35 the register run of auth
\* The answer of the custodian to the call of a step (history of the calls)
AnswerTo(S, st, field) == Get(S.calls[st.call].result, field)

\* C35: the register that auth falls back to runs in full and on its own:
\* its first step is a get_public_key request that authenticate had not
\* sent; its POST /challenge has the action 'register' and the key that
\* request returned; its sign_challenge request, again a new one, has the
\* challenge this POST returned; its POST /register submits that key, that
\* challenge and the signature this sign_challenge returned.
C35_RegisterRunsAnew ==
  \A o \in OpIds :
    LET reg == StepsIn(ops[o], "register")
        au == StepsIn(ops[o], "authenticate")
    IN ops[o].kind = "auth" /\ Len(reg) > 0 =>
         /\ Len(au) > 0
         /\ reg[1].step = "get_public_key"
         /\ \A i \in 1..Len(au) : reg[1].call > au[i].call
         /\ Len(reg) >= 2 =>
              /\ reg[2].step = "/api/v1/seedkey/challenge"
              /\ reg[2].payload.action = "register"
              /\ reg[2].payload.publicKey = AnswerTo(State, reg[1], "publicKey")
         /\ Len(reg) >= 3 =>
              /\ reg[3].step = "sign_challenge"
              /\ reg[3].call > reg[1].call
              /\ reg[3].payload.challenge = reg[2].reply.challenge
         /\ Len(reg) >= 4 =>
              /\ reg[4].step = "/api/v1/seedkey/register"
              /\ reg[4].payload.publicKey = AnswerTo(State, reg[1], "publicKey")
              /\ reg[4].payload.challenge = reg[2].reply.challenge
              /\ reg[4].payload.signature = AnswerTo(State, reg[3], "signature")
         /\ Len(reg) <= 4

\* auth() has submitted to /register a key, a challenge and a signature that
\* all differ from those its authenticate had submitted to /verify
C35_Witness ==
  \E o \in OpIds :
    LET reg == StepsIn(ops[o], "register")
        au == StepsIn(ops[o], "authenticate")
    IN /\ ops[o].kind = "auth"
       /\ Len(au) = 4
       /\ Len(reg) = 4
       /\ reg[4].payload.publicKey # au[4].payload.publicKey
       /\ reg[4].payload.challenge # au[4].payload.challenge
       /\ reg[4].payload.signature # au[4].payload.signature

\* --------------------------------------------- C39 the key within a flow
\* C39: in a run of register or authenticate, the publicKey of the POST
\* /challenge and the publicKey of the POST /register resp. /verify are both
\* the one the get_public_key request of that run returned, whatever
\* publicKey the sign_challenge response carries.
C39_OneKeyPerFlow ==
  \A o \in OpIds, flow \in DOMAIN Flows :
    LET st == StepsIn(ops[o], flow)
    IN /\ Len(st) >= 2 =>
            /\ st[2].step = "/api/v1/seedkey/challenge"
            /\ st[2].payload.publicKey = AnswerTo(State, st[1], "publicKey")
       /\ Len(st) >= 4 =>
            /\ st[4].step = Flows[flow].path
            /\ st[4].payload.publicKey = AnswerTo(State, st[1], "publicKey")
            /\ st[4].payload.publicKey = st[2].payload.publicKey

\* A run has submitted its key although the sign_challenge response named
\* another one
C39_Witness ==
  \E o \in OpIds, flow \in DOMAIN Flows :
    LET st == StepsIn(ops[o], flow)
    IN /\ Len(st) = 4
       /\ AnswerTo(State, st[3], "publicKey") # Undefined
       /\ AnswerTo(State, st[3], "publicKey") # st[4].payload.publicKey
       /\ st[4].payload.signature = AnswerTo(State, st[3], "signature")

\* --------------------------------------------- C36 the in-flight table
\* C36: in every state the requests that have an entry in the in-flight
\* table are exactly the requests sent and not yet settled, and a request
\* has an armed timer exactly when it has an entry.
C36_TableConsistency ==
  \A c \in CallIds :
    /\ HasEntry(c) <=> calls[c].state = "pending"
    /\ HasTimer(c) <=> HasEntry(c)

\* ------------------------------------------- C37 every request settles
\* C37: with fair timers every request that is pending settles in the end,
\* and every entry leaves the table in the end, whether or not a response
\* comes and whether the request was sent before or after destroy().
C37_EveryRequestSettles ==
  \A c \in 1..MaxCalls :
    (c \in CallIds /\ (calls[c].state = "pending" \/ HasEntry(c)))
      ~> (c \in CallIds /\ calls[c].state # "pending" /\ ~HasEntry(c))

\* a request sent on a destroyed instance, which no response can reach, has
\* been rejected by its timer
C37_Witness ==
  \E c \in CallIds :
    /\ calls[c].epoch > 0
    /\ calls[c].state = "rejected"
    /\ calls[c].by = "timeout"
    /\ ~HasEntry(c)

\* --------------------------------------------- C38 every flow settles
\* C38: with fair timers and continuations, and a backend whose every
\* request comes to an end, every call of register, authenticate or auth
\* settles in the end, whatever the custodian answers or not and wherever
\* destroy() falls.
C38_EveryFlowSettles ==
  \A o \in 1..MaxKeyed :
    (o \in OpIds /\ ops[o].state = "pending")
      ~> (o \in OpIds /\ ops[o].state # "pending")

\* a flow whose instance was destroyed while its POST /challenge was under
\* way has sent its sign_challenge request all the same, and has been
\* rejected with the error of that request's timer
C38_Witness ==
  \E o \in OpIds :
    LET st == ops[o].steps
    IN /\ ops[o].state = "rejected"
       /\ Len(st) = 3
       /\ st[3].step = "sign_challenge"
       /\ calls[st[3].call].epoch > 0
       /\ calls[st[3].call].by = "timeout"
       /\ ops[o].error = calls[st[3].call].error

\* ------------------------------------------------ C40 instance isolation
\* the table, the timers, the promises and the listener of an object
Private(object) ==
  <<object.S.pendingRequests, object.S.timers, object.S.calls, object.S.listening>>

\* C40: of the objects that listen to a response event, one whose table
\* holds the requestId settles the request of that entry, by this response,
\* and no other of its requests; one whose table does not hold it keeps its
\* table, timers and promises as they were. destroy() on one object leaves
\* every other object as it was, its pending requests and listener included.
C40_InstanceIsolation ==
  [][/\ \A data \in PageResponses :
          Dispatch(data) =>
            \A i \in 1..Len(instances) :
              LET S == instances[i].S
                  T == instances'[i].S
              IN IF /\ S.listening /\ data.detail /\ data.type = "SEEDKEY_RESPONSE"
                    /\ data.requestId \in DOMAIN S.pendingRequests
                   THEN /\ \A c \in 1..Len(S.calls) :
                             IF c = S.pendingRequests[data.requestId].call
                               THEN /\ T.calls[c].state # "pending"
                                    /\ T.calls[c].by = "response"
                               ELSE T.calls[c] = S.calls[c]
                        /\ T.listening
                   ELSE Private(instances'[i]) = Private(instances[i])
     /\ \A i \in 1..Len(instances) :
          DestroyOn(i) =>
            /\ ~instances'[i].S.listening
            /\ \A j \in 1..Len(instances) :
                 j # i => instances'[j] = instances[j]]_vars

\* Of two objects with a request in flight each, one had its request
\* settled by a response and was then destroyed; the request of the other
\* is pending still, with its entry and its timer, and its listener attached
C40_Witness ==
  /\ Len(instances) = 2
  /\ \E i, j \in 1..2 :
       /\ i # j
       /\ Len(instances[i].S.calls) > 0
       /\ instances[i].S.calls[1].state = "resolved"
       /\ ~instances[i].S.listening
       /\ Len(instances[j].S.calls) > 0
       /\ instances[j].S.calls[1].state = "pending"
       /\ instances[j].S.calls[1].requestId \in DOMAIN instances[j].S.pendingRequests
       /\ instances[j].S.timers # {}
       /\ instances[j].S.listening

====
